---- MODULE Spec2Model ----
(***************************************************************************)
(* Model of the ipv6 package of zlobste/ip6calc (src/unnamed/part_001):    *)
(* Address arithmetic, CIDR construction and relations, Split and the      *)
(* SubnetIterator, Summarize, CoverRange and Supernet.                     *)
(*                                                                         *)
(* Scaling.  The package works on 16 bytes of 8 bits, split into two       *)
(* uint64 halves.  TLC cannot enumerate (or even represent) 2^128, so the  *)
(* model keeps the layout and shrinks the units: an address is ByteLen = 4 *)
(* bytes of ByteBits = 2 bits (BitLen = 8), the two machine words hi and   *)
(* lo are HalfBits = 4 bits wide and wrap modulo 2^HalfBits, and the       *)
(* IPv4-mapped form that net.IP.To4 recognises (10 zero bytes, 2 bytes     *)
(* 0xff, 4 free bytes) becomes V4ZeroBytes = 2 zero bytes, V4OnesBytes = 1 *)
(* byte of all ones, 1 free byte.  MaxSplitParts (2^20, below the 2^63     *)
(* shift guard) becomes 2^2, below the 2^(HalfBits-1) shift guard.         *)
(*                                                                         *)
(* An Address is modelled by the unsigned value of its big-endian bytes,   *)
(* 0 .. MaxAddr, and the zero value Address{} (ip == nil) by NilAddr.      *)
(* A Go panic is an outcome of its own: PanicAddr / PanicCIDR / "panic".   *)
(***************************************************************************)
EXTENDS Integers, Sequences, FiniteSets, TLC

\* ---------------------------------------------------------------- widths
ByteBits == 2
ByteLen == 4
BitLen == ByteBits * ByteLen
HalfBits == BitLen \div 2
V4ZeroBytes == 2
V4OnesBytes == 1
MaxSplitParts == 4

Pow2(n) == 2 ^ n
ByteMax == Pow2(ByteBits) - 1
Mod == Pow2(BitLen)
MaxAddr == Mod - 1
WordMod == Pow2(HalfBits)

NilAddr == -1
PanicAddr == -2

\* the i-th byte (0-based, big-endian) of a 16-byte value
ByteAt(v, i) == (v \div Pow2(ByteBits * (ByteLen - 1 - i))) % Pow2(ByteBits)

RECURSIVE FromBytes(_, _)
FromBytes(b, n) ==
    IF n = 0 THEN 0 ELSE FromBytes(b, n - 1) * Pow2(ByteBits) + b[n]

RECURSIVE BitAnd(_, _, _)
BitAnd(x, y, n) ==
    IF n = 0 THEN 0
    ELSE 2 * BitAnd(x \div 2, y \div 2, n - 1) + (IF x % 2 = 1 /\ y % 2 = 1 THEN 1 ELSE 0)

\* big.Int.BitLen of a non-negative value
RECURSIVE BigBitLen(_)
BigBitLen(v) == IF v = 0 THEN 0 ELSE 1 + BigBitLen(v \div 2)

Abs(v) == IF v < 0 THEN -v ELSE v

\* ------------------------------------------------------------- maskTable
maskTable(plen, i) ==
    LET bitsLeft == plen - i * ByteBits
    IN  IF bitsLeft >= ByteBits THEN ByteMax
        ELSE IF bitsLeft > 0 THEN (ByteMax * Pow2(ByteBits - bitsLeft)) % Pow2(ByteBits)
        ELSE 0

\* --------------------------------------------------------------- Address
\* net.IP.To4 on a 16-byte slice: non-nil iff the IPv4-mapped prefix is there
To4NonNil(v) ==
    /\ \A i \in 0 .. (V4ZeroBytes - 1) : ByteAt(v, i) = 0
    /\ \A i \in V4ZeroBytes .. (V4ZeroBytes + V4OnesBytes - 1) : ByteAt(v, i) = ByteMax

\* NewAddress on a 16-byte buffer holding v; the error is returned together
\* with Address{}, which is what callers that drop the error keep.
NewAddressErr(v) == To4NonNil(v)
NewAddress(v) == IF NewAddressErr(v) THEN NilAddr ELSE v

ValidAddrs == {v \in 0 .. MaxAddr : ~NewAddressErr(v)}

\* a.BigInt(): SetBytes of a nil slice is 0
BigInt(a) == IF a = NilAddr THEN 0 ELSE a

\* big.Int.FillBytes(make([]byte, 16)): writes |v|, panics when it does not fit
FillBytesPanics(v) == Abs(v) >= Mod
FillBytes(v) == Abs(v)

AddressFromBigIntErr(v) == v < 0 \/ BigBitLen(Abs(v)) > BitLen \/ NewAddressErr(v)
\* AddressFromBigInt taking the low word of v (v.Uint64()) for its bytes
AddressFromBigInt_LowWord(v) == IF AddressFromBigIntErr(v) THEN NilAddr ELSE NewAddress(v % WordMod)

AddressFromBigInt(v) == IF AddressFromBigIntErr(v) THEN NilAddr ELSE NewAddress(FillBytes(v))

\* hiLo indexes a.ip[0..15]: panics on Address{}
hiLoPanics(a) == a = NilAddr
hi(a) == a \div WordMod
lo(a) == a % WordMod
fromHiLo(h, l) == NewAddress(h * WordMod + l)

\* Add's fast path (lines 150-158): delta fits one word, carry into hi only
AddFast_NoCarry(a, delta) ==
    IF hiLoPanics(a) THEN PanicAddr
    ELSE fromHiLo(hi(a), (lo(a) + delta) % WordMod)

AddFast(a, delta) ==
    IF hiLoPanics(a) THEN PanicAddr
    ELSE LET lo2 == (lo(a) + delta) % WordMod
             carry == IF lo2 < lo(a) THEN 1 ELSE 0
         IN  fromHiLo((hi(a) + carry) % WordMod, lo2)

\* Add's big.Int path (lines 160-166)
AddBig(a, delta) ==
    LET v == (BigInt(a) + delta) % Mod
    IN  NewAddress(FillBytes(v))

\* Add for delta >= 0 (lines 149-166)
AddAbs(a, delta) ==
    IF BigBitLen(delta) <= HalfBits THEN AddFast(a, delta) ELSE AddBig(a, delta)

\* Sub's fast path (lines 175-185): delta fits one word, borrow from hi only
SubFast(a, delta) ==
    IF hiLoPanics(a) THEN PanicAddr
    ELSE IF lo(a) >= delta
         THEN fromHiLo(hi(a), lo(a) - delta)
         ELSE fromHiLo((hi(a) - 1) % WordMod, (lo(a) - delta) % WordMod)

\* Sub's big.Int path (lines 187-196): mod is added once to a negative value
SubBig(a, delta) ==
    LET v0 == BigInt(a) - delta
        v == IF v0 < 0 THEN v0 + Mod ELSE v0
    IN  IF FillBytesPanics(v) THEN PanicAddr ELSE NewAddress(FillBytes(v))

\* Sub for delta >= 0 (lines 174-196)
SubAbs(a, delta) ==
    IF BigBitLen(delta) <= HalfBits THEN SubFast(a, delta) ELSE SubBig(a, delta)

Add(a, delta) ==
    IF a = PanicAddr THEN PanicAddr
    ELSE IF delta < 0 THEN SubAbs(a, Abs(delta)) ELSE AddAbs(a, delta)

Sub(a, delta) ==
    IF a = PanicAddr THEN PanicAddr
    ELSE IF delta < 0 THEN AddAbs(a, Abs(delta)) ELSE SubAbs(a, delta)

Offset(a, u) == Add(a, u)

\* bytesCompare on the two ip slices (a nil slice is the shorter one)
Compare(a, b) ==
    IF a = NilAddr /\ b = NilAddr THEN 0
    ELSE IF a = NilAddr THEN -1
    ELSE IF b = NilAddr THEN 1
    ELSE IF a < b THEN -1 ELSE IF a > b THEN 1 ELSE 0

\* Mask: panics on an invalid prefix and on Address{} (b[i] on an empty slice)
Mask(a, plen) ==
    IF plen < 0 \/ plen > BitLen THEN PanicAddr
    ELSE IF a = NilAddr \/ a = PanicAddr THEN PanicAddr
    ELSE NewAddress(FromBytes([i \in 1 .. ByteLen |->
                        BitAnd(ByteAt(a, i - 1), maskTable(plen, i - 1), ByteBits)], ByteLen))

\* ------------------------------------------------------------------ CIDR
ZeroCIDR == [base |-> NilAddr, plen |-> 0]
PanicCIDR == [base |-> PanicAddr, plen |-> 0]

\* chars of a prefix text: 0..9 are the digits, NonDigit any other rune
NonDigit == 10

RECURSIVE parsePrefixLoop(_, _, _)
parsePrefixLoop(p, i, val) ==
    IF i > Len(p) THEN [val |-> val, err |-> ""]
    ELSE IF p[i] = NonDigit THEN [val |-> 0, err |-> "ErrInvalidPrefix"]
    ELSE LET v2 == val * 10 + p[i]
         IN  IF v2 > BitLen THEN [val |-> 0, err |-> "ErrInvalidPrefix"]
             ELSE parsePrefixLoop(p, i + 1, v2)

parsePrefix(p) ==
    IF p = <<>> THEN [val |-> 0, err |-> "ErrInvalidPrefix"]
    ELSE parsePrefixLoop(p, 1, 0)

\* NewCIDR keeping the caller's address as the base, unmasked
NewCIDR_NoMask(base, plen) ==
    IF plen < 0 \/ plen > BitLen THEN [c |-> [base |-> NilAddr, plen |-> 0], err |-> "ErrInvalidPrefix"]
    ELSE IF base = NilAddr \/ base = PanicAddr THEN [c |-> [base |-> PanicAddr, plen |-> 0], err |-> "panic"]
    ELSE [c |-> [base |-> base, plen |-> plen], err |-> ""]

\* NewCIDR: (CIDR{}, ErrInvalidPrefix) or the masked network; Mask may panic
NewCIDR(base, plen) ==
    IF plen < 0 \/ plen > BitLen THEN [c |-> ZeroCIDR, err |-> "ErrInvalidPrefix"]
    ELSE LET m == Mask(base, plen)
         IN  IF m = PanicAddr THEN [c |-> PanicCIDR, err |-> "panic"]
             ELSE [c |-> [base |-> m, plen |-> plen], err |-> ""]

\* Parse of an address text, given what net.ParseIP makes of it: NilAddr for
\* nil, else the value of the 16 bytes (an IPv4 text gives the mapped form)
ParseErr(ip) == ip = NilAddr \/ NewAddressErr(ip)
Parse(ip) == IF ParseErr(ip) THEN NilAddr ELSE NewAddress(ip)

\* ParseCIDR of a text with nparts "/"-separated parts, whose first part
\* net.ParseIP reads as ip and whose second part is the rune sequence ptext
ParseCIDR(nparts, ip, ptext) ==
    IF nparts # 2 THEN [c |-> ZeroCIDR, err |-> "ErrInvalidCIDR"]
    ELSE IF ParseErr(ip) THEN [c |-> ZeroCIDR, err |-> "ErrInvalidAddress"]
    ELSE LET pp == parsePrefix(ptext)
         IN  IF pp.err # "" THEN [c |-> ZeroCIDR, err |-> pp.err]
             ELSE NewCIDR(Parse(ip), pp.val)

HostCount(c) == Pow2(BitLen - c.plen)
FirstHost(c) == c.base

\* LastHost: base + count - 1 through NewAddress, whose error is dropped
LastHost(c) ==
    LET last == BigInt(c.base) + HostCount(c) - 1
    IN  IF FillBytesPanics(last) THEN PanicAddr ELSE NewAddress(FillBytes(last))

ContainsAddress(c, a) == Compare(c.base, Mask(a, c.plen)) = 0
ContainsCIDR(c, o) == c.plen <= o.plen /\ ContainsAddress(c, o.base)

Overlaps(c, o) ==
    /\ BigInt(FirstHost(c)) <= BigInt(LastHost(o))
    /\ BigInt(FirstHost(o)) <= BigInt(LastHost(c))

Next(c) == NewCIDR(Add(c.base, HostCount(c)), c.plen).c
Prev(c) == NewCIDR(Sub(c.base, HostCount(c)), c.plen).c

\* ----------------------------------------------------------------- Split
ShiftGuard == HalfBits - 1

SplitErr(c, newPrefix) ==
    IF newPrefix < c.plen \/ newPrefix > BitLen THEN "ErrInvalidSplitPrefix"
    ELSE IF newPrefix = c.plen THEN ""
    ELSE IF newPrefix - c.plen >= ShiftGuard THEN "ErrSplitExcessive"
    ELSE IF Pow2(newPrefix - c.plen) > MaxSplitParts THEN "ErrSplitExcessive"
    ELSE ""

\* the loop of Split from iteration i on; <<PanicCIDR>> when NewCIDR panics
RECURSIVE SplitLoop(_, _, _, _, _, _)
SplitLoop(cur, i, parts, step, newPrefix, res) ==
    IF i >= parts THEN res
    ELSE LET sub == NewCIDR(cur, newPrefix)
         IN  IF sub.err = "panic" THEN <<PanicCIDR>>
             ELSE SplitLoop(Add(cur, step), i + 1, parts, step, newPrefix, Append(res, sub.c))

Split(c, newPrefix) ==
    LET e == SplitErr(c, newPrefix)
    IN  IF e # "" THEN [res |-> <<>>, err |-> e]
        ELSE IF newPrefix = c.plen THEN [res |-> <<c>>, err |-> ""]
        ELSE LET countBits == newPrefix - c.plen
                 parts == Pow2(countBits)
                 step == HostCount(c) \div Pow2(countBits)
                 r == SplitLoop(c.base, 0, parts, step, newPrefix, <<>>)
             IN  IF r = <<PanicCIDR>> THEN [res |-> <<>>, err |-> "panic"]
                 ELSE [res |-> r, err |-> ""]

\* -------------------------------------------------------- SubnetIterator
NoIter == [remaining |-> 0, current |-> NilAddr, step |-> 0, plen |-> 0]

SubnetIterator(c, newPrefix) ==
    LET e == SplitErr(c, newPrefix)
    IN  IF e # "" THEN [it |-> NoIter, err |-> e]
        ELSE IF newPrefix = c.plen
             THEN [it |-> [remaining |-> 1, current |-> c.base, step |-> 0, plen |-> newPrefix],
                   err |-> ""]
        ELSE LET countBits == newPrefix - c.plen
             IN  [it |-> [remaining |-> Pow2(countBits), current |-> c.base,
                          step |-> HostCount(c) \div Pow2(countBits), plen |-> newPrefix],
                  err |-> ""]

\* it.Next() that leaves it.current where it was
IterNext_NoAdvance(it) ==
    IF it.remaining = 0 THEN [c |-> ZeroCIDR, ok |-> FALSE, it |-> it, panic |-> FALSE]
    ELSE LET n == NewCIDR(it.current, it.plen)
         IN  IF n.err = "panic" THEN [c |-> PanicCIDR, ok |-> FALSE, it |-> it, panic |-> TRUE]
             ELSE [c |-> n.c, ok |-> TRUE, panic |-> FALSE,
                   it |-> [it EXCEPT !.remaining = it.remaining - 1]]

\* it.Next(): [c, ok, it] with the iterator as the call leaves it
IterNext(it) ==
    IF it.remaining = 0 THEN [c |-> ZeroCIDR, ok |-> FALSE, it |-> it, panic |-> FALSE]
    ELSE LET n == NewCIDR(it.current, it.plen)
         IN  IF n.err = "panic" THEN [c |-> PanicCIDR, ok |-> FALSE, it |-> it, panic |-> TRUE]
             ELSE [c |-> n.c, ok |-> TRUE, panic |-> FALSE,
                   it |-> [it EXCEPT !.current = Add(it.current, it.step),
                                     !.remaining = it.remaining - 1]]

\* ------------------------------------------------------------- Summarize
\* the sort.Slice comparator: by base, then shorter prefix first
SortLess(x, y) ==
    LET cmp == Compare(x.base, y.base)
    IN  IF cmp = 0 THEN x.plen < y.plen ELSE cmp < 0

RECURSIVE SortInsert(_, _)
SortInsert(s, x) ==
    IF s = <<>> THEN <<x>>
    ELSE IF SortLess(x, Head(s)) THEN <<x>> \o s
    ELSE <<Head(s)>> \o SortInsert(Tail(s), x)

\* sort.Slice leaving norm in the order of the input
SortSlice_NoSort(s) == s

\* sort.Slice(norm, less): the comparator is a total order up to equality of
\* values, so every sorting algorithm gives the same slice
RECURSIVE SortSlice(_)
SortSlice(s) == IF s = <<>> THEN <<>> ELSE SortInsert(SortSlice(Tail(s)), Head(s))

\* norm[i].base = norm[i].base.Mask(norm[i].plen)
Normalize(cidrs) == [i \in 1 .. Len(cidrs) |-> [cidrs[i] EXCEPT !.base = Mask(cidrs[i].base, cidrs[i].plen)]]

PanicStack == <<PanicCIDR>>

\* the merge loop leaving the stack as it is
MergeUp_NoMerge(stack) == stack

\* the merge loop without the "ensure alignment" check
RECURSIVE MergeUp_NoAlign(_)
MergeUp_NoAlign(stack) ==
    IF Len(stack) < 2 THEN stack
    ELSE LET last == stack[Len(stack)]
             prev == stack[Len(stack) - 1]
         IN  IF last.plen # prev.plen THEN stack
             ELSE IF last.plen = 0 THEN stack
             ELSE LET nx == Next(prev)
                  IN  IF nx = PanicCIDR THEN PanicStack
                      ELSE IF Compare(nx.base, last.base) # 0 THEN stack
                      ELSE LET parentPrefix == last.plen - 1
                               parentBase == Mask(prev.base, parentPrefix)
                           IN  MergeUp_NoAlign(Append(SubSeq(stack, 1, Len(stack) - 2),
                                                      NewCIDR(parentBase, parentPrefix).c))

\* the inner "attempt upward merges greedily" loop
RECURSIVE MergeUp(_)
MergeUp(stack) ==
    IF Len(stack) < 2 THEN stack
    ELSE LET last == stack[Len(stack)]
             prev == stack[Len(stack) - 1]
         IN  IF last.plen # prev.plen THEN stack
             ELSE IF last.plen = 0 THEN stack
             ELSE LET nx == Next(prev)
                  IN  IF nx = PanicCIDR THEN PanicStack
                      ELSE IF Compare(nx.base, last.base) # 0 THEN stack
                      ELSE LET parentPrefix == last.plen - 1
                               parentBase == Mask(prev.base, parentPrefix)
                           IN  IF Compare(parentBase, Mask(last.base, parentPrefix)) # 0 THEN stack
                               ELSE MergeUp(Append(SubSeq(stack, 1, Len(stack) - 2),
                                                   NewCIDR(parentBase, parentPrefix).c))

\* the outer loop over norm from index i on
RECURSIVE SummarizeLoop(_, _, _)
SummarizeLoop(norm, i, stack) ==
    IF stack = PanicStack THEN PanicStack
    ELSE IF i > Len(norm) THEN stack
    ELSE IF Len(stack) > 0 /\ ContainsCIDR(stack[Len(stack)], norm[i])
         THEN SummarizeLoop(norm, i + 1, stack)
    ELSE SummarizeLoop(norm, i + 1, MergeUp(Append(stack, norm[i])))

\* Summarize: [res, err] with err = "panic" when a call inside panics
Summarize(cidrs) ==
    IF Len(cidrs) = 0 THEN [res |-> <<>>, err |-> ""]
    ELSE LET r == SummarizeLoop(SortSlice(Normalize(cidrs)), 1, <<>>)
         IN  IF r = PanicStack THEN [res |-> <<>>, err |-> "panic"]
             ELSE [res |-> r, err |-> ""]

\* -------------------------------------------------------------- Distance
\* |a - b| on the two words, callers make sure neither is Address{}
Distance(a, b) ==
    LET swap == hi(a) > hi(b) \/ (hi(a) = hi(b) /\ lo(a) > lo(b))
        ahi == IF swap THEN hi(b) ELSE hi(a)
        alo == IF swap THEN lo(b) ELSE lo(a)
        bhi == IF swap THEN hi(a) ELSE hi(b)
        blo == IF swap THEN lo(a) ELSE lo(b)
        dlo == (blo - alo) % WordMod
        dhi == IF blo >= alo THEN (bhi - ahi) % WordMod ELSE ((bhi - 1) - ahi) % WordMod
    IN  dhi * WordMod + dlo
DistancePanics(a, b) == hiLoPanics(a) \/ hiLoPanics(b)

\* ------------------------------------------------------------ CoverRange
\* bits.TrailingZeros64 of a non-zero word
RECURSIVE TrailingZeros(_)
TrailingZeros(x) == IF x % 2 = 1 THEN 0 ELSE 1 + TrailingZeros(x \div 2)

CoverRangeErr(start, end) == Compare(start, end) > 0

\* one iteration of the loop at cursor cur: the block appended and the next
\* cursor; panic when a call inside panics
CoverBody(cur, end) ==
    IF DistancePanics(cur, end) THEN [cid |-> PanicCIDR, cur |-> PanicAddr, panic |-> TRUE]
    ELSE LET rem == Distance(cur, end) + 1
             tz0 == IF lo(cur) # 0 THEN TrailingZeros(lo(cur))
                    ELSE IF hi(cur) # 0 THEN HalfBits + TrailingZeros(hi(cur))
                    ELSE BitLen
             remBits0 == BigBitLen(rem) - 1
             remBits == IF remBits0 < 0 THEN 0 ELSE remBits0
             tz == IF tz0 > remBits THEN remBits ELSE tz0
             prefix == BitLen - tz
             cid == NewCIDR(cur, prefix).c
             nxt == Add(LastHost(cid), 1)
         IN  IF cid = PanicCIDR \/ nxt = PanicAddr
             THEN [cid |-> cid, cur |-> PanicAddr, panic |-> TRUE]
             ELSE [cid |-> cid, cur |-> nxt, panic |-> FALSE]

CoverContinues(cur, end) == Compare(cur, end) <= 0

\* --------------------------------------------------------------- Supernet
RECURSIVE MinFirst(_, _, _)
MinFirst(list, i, min) ==
    IF i > Len(list) THEN min
    ELSE MinFirst(list, i + 1, IF Compare(FirstHost(list[i]), min) < 0 THEN FirstHost(list[i]) ELSE min)

RECURSIVE MaxLast(_, _, _)
MaxLast(list, i, max) ==
    IF i > Len(list) THEN max
    ELSE MaxLast(list, i + 1, IF Compare(LastHost(list[i]), max) > 0 THEN LastHost(list[i]) ELSE max)

\* the inner loop over the bits of the first differing byte, from bit b down
RECURSIVE CommonBits(_, _, _)
CommonBits(mbyte, xbyte, b) ==
    IF b < 0 THEN 0
    ELSE IF (mbyte \div Pow2(b)) % 2 = (xbyte \div Pow2(b)) % 2
         THEN 1 + CommonBits(mbyte, xbyte, b - 1)
         ELSE 0

\* the outer loop over the bytes from index i on
RECURSIVE CommonPrefix(_, _, _)
CommonPrefix(mb, xb, i) ==
    IF i >= ByteLen THEN 0
    ELSE IF ByteAt(mb, i) = ByteAt(xb, i) THEN ByteBits + CommonPrefix(mb, xb, i + 1)
    ELSE CommonBits(ByteAt(mb, i), ByteAt(xb, i), ByteBits - 1)

\* Supernet: [c, err]; min.ip[i] / max.ip[i] panic on Address{}
Supernet(list) ==
    IF Len(list) = 0 THEN [c |-> ZeroCIDR, err |-> "empty list"]
    ELSE LET min == MinFirst(list, 2, FirstHost(list[1]))
             max == MaxLast(list, 2, LastHost(list[1]))
         IN  IF min \in {NilAddr, PanicAddr} \/ max \in {NilAddr, PanicAddr}
             THEN [c |-> PanicCIDR, err |-> "panic"]
             ELSE LET prefix == CommonPrefix(min, max, 0)
                  IN  NewCIDR(Mask(min, prefix), prefix)

\* ======================================================================
\* State
\* ======================================================================
VARIABLES
    pc,      \* the call in progress or last made, and for CoverRange the place in it
    err,     \* "" or the error the last call returned; "panic" when it panicked
    net,     \* the CIDR the caller holds (receiver or result)
    arg,     \* the int argument of the last call (plen, newPrefix)
    it,      \* the SubnetIterator the caller holds
    cidrs,   \* the slice handed to Summarize / Supernet
    res,     \* the slice a call builds and returns
    start,   \* CoverRange: start
    end,     \* CoverRange: end
    cur,     \* CoverRange: the cursor
    a,       \* the Address receiver of an arithmetic call
    delta,   \* its big.Int argument
    sum,     \* the Address it returned
    other,   \* the second CIDR of a call on two networks, or the CIDR a call returned
    bAddr,   \* the second Address of a call on two addresses
    num,     \* the integer a call was given or returned
    flag,    \* the bool a call returned
    text,    \* the text of an address
    heap,    \* memory: the backing arrays and big.Ints allocated so far, by reference
    refs,    \* the references the caller holds into heap
    goros    \* the goroutines of concurrent callers: position and locals of each

vars == <<pc, err, net, arg, it, cidrs, res, start, end, cur, a, delta, sum, other, bAddr, num, flag, text,
          heap, refs, goros>>
memVars == <<heap, refs>>
goVars == <<goros>>
cidrVars == <<net, arg, it>>
coverVars == <<start, end, cur>>
arithVars == <<a, delta, sum>>
queryVars == <<other, bAddr, num, flag, text>>

\* the values variables hold while their part of the package is not in use
IdleCIDR == net = ZeroCIDR /\ arg = 0 /\ it = NoIter
IdleCover == start = NilAddr /\ end = NilAddr /\ cur = NilAddr
IdleArith == a = NilAddr /\ delta = 0 /\ sum = NilAddr
IdleQuery == other = ZeroCIDR /\ bAddr = NilAddr /\ num = 0 /\ flag = FALSE /\ text = <<>>
\* no reference held: 0 is the nil slice and the nil pointer
NilCIDRRef == [base |-> 0, plen |-> 0]
NoRefs == [buf |-> 0, addr |-> 0, delta |-> 0, cidr |-> NilCIDRRef, list |-> 0, out |-> 0]
IdleMem == heap = <<>> /\ refs = NoRefs
IdleGo == goros = <<>>

\* integer view of a network's address range
Lo(c) == c.base
Hi(c) == c.base + Pow2(BitLen - c.plen) - 1
Range(c) == Lo(c) .. Hi(c)
RECURSIVE UnionRange(_, _)
UnionRange(l, n) == IF n = 0 THEN {} ELSE UnionRange(l, n - 1) \cup Range(l[n])

\* every CIDR NewCIDR can return for a valid address
AllCIDRs == {NewCIDR(v, p).c : v \in ValidAddrs, p \in 0 .. BitLen}

\* ======================================================================
\* CoverRange, one loop iteration per step
\* ======================================================================
MaxBlocks == 18

InitCover ==
    /\ pc = "CoverRange"
    /\ start \in ValidAddrs
    /\ end \in ValidAddrs
    /\ cur = NilAddr
    /\ res = <<>>
    /\ err = ""
    /\ cidrs = <<>>
    /\ IdleCIDR /\ IdleArith /\ IdleQuery
    /\ IdleMem /\ IdleGo

\* lines 518-523: the range check and the loop's initialisation
CoverEnter ==
    /\ pc = "CoverRange"
    /\ IF CoverRangeErr(start, end)
       THEN pc' = "done" /\ err' = "invalid range" /\ cur' = cur
       ELSE pc' = "loop" /\ err' = "" /\ cur' = start
    /\ res' = <<>>
    /\ UNCHANGED <<memVars, goVars, queryVars, cidrVars, cidrs, start, end, arithVars>>

\* lines 524-548: one iteration of the loop
CoverIter ==
    /\ pc = "loop"
    /\ CoverContinues(cur, end)
    /\ Len(res) < MaxBlocks
    /\ LET b == CoverBody(cur, end)
       IN  IF b.panic /\ b.cid = PanicCIDR
           THEN pc' = "panic" /\ err' = "panic" /\ res' = res /\ cur' = cur
           ELSE IF b.panic
           THEN pc' = "panic" /\ err' = "panic" /\ res' = Append(res, b.cid) /\ cur' = cur
           ELSE pc' = "loop" /\ err' = err /\ res' = Append(res, b.cid) /\ cur' = b.cur
    /\ UNCHANGED <<memVars, goVars, queryVars, cidrVars, cidrs, start, end, arithVars>>

\* line 549: the loop condition fails and res is returned
CoverReturn ==
    /\ pc = "loop"
    /\ ~CoverContinues(cur, end)
    /\ pc' = "done"
    /\ UNCHANGED <<memVars, goVars, queryVars, err, cidrVars, cidrs, res, coverVars, arithVars>>

NextCover == CoverEnter \/ CoverIter \/ CoverReturn
SpecCover == InitCover /\ [][NextCover]_vars

\* The blocks inside [s, e] that no larger block inside [s, e] contains.  Every
\* block inside [s, e] lies in exactly one of them, so a set of blocks whose
\* union is [s, e] has at least this many elements.
MaximalBlocks(s, e) ==
    {c \in {[base |-> b - (b % Pow2(BitLen - p)), plen |-> p] : p \in 0 .. BitLen, b \in s .. e} :
        /\ Lo(c) >= s /\ Hi(c) <= e
        /\ c.plen > 0 =>
             LET par == [base |-> c.base - (c.base % Pow2(BitLen - c.plen + 1)), plen |-> c.plen - 1]
             IN  ~(Lo(par) >= s /\ Hi(par) <= e)}
MinCoverSize(s, e) == Cardinality(MaximalBlocks(s, e))

CoverCalled == pc # "CoverRange" /\ Compare(start, end) <= 0

\* C6: for start <= end CoverRange returns, and the blocks it emits are in
\* ascending order, each beginning at the cursor (start, then one past the
\* previous block's last address), none extending past end, the last one
\* ending exactly at end.
C6_CoverExact ==
    CoverCalled =>
        /\ pc # "panic"
        /\ \A i \in 1 .. Len(res) :
              /\ Hi(res[i]) <= end
              /\ Lo(res[i]) = (IF i = 1 THEN start ELSE Hi(res[i - 1]) + 1)
        /\ pc = "done" => (res # <<>> /\ Hi(res[Len(res)]) = end)

\* C7: every iteration of the loop moves the cursor strictly upwards (so the
\* loop ends once the cursor has passed end).
C7_CursorIncreases == [][(pc = "loop" /\ pc' = "loop") => Compare(cur', cur) > 0]_vars

\* C8: for start <= end CoverRange returns a cover of [start, end] with the
\* least possible number of networks, and never emits more than that.
C8_Minimal ==
    CoverCalled =>
        /\ pc # "panic"
        /\ Len(res) <= MinCoverSize(start, end)
        /\ pc = "done" => (Len(res) = MinCoverSize(start, end) /\ UnionRange(res, Len(res)) = start .. end)

\* ======================================================================
\* Summarize
\* ======================================================================
MaxList == 3

\* Inputs: every list of one or two networks, and the longer lists (up to
\* MaxList) over the short prefixes, which is where merges cascade, together
\* with the networks of the last byte boundary around the IPv4-mapped block.
SumPool ==
    {c \in AllCIDRs : c.plen < HalfBits}
        \cup {c \in AllCIDRs : c.plen = BitLen - ByteBits /\ c.base < Pow2(HalfBits + 1)}

ListsOver(S, n) == [1 .. n -> S]
ListInputs ==
    ListsOver(AllCIDRs, 1) \cup ListsOver(AllCIDRs, 2)
        \cup UNION {ListsOver(SumPool, n) : n \in 3 .. MaxList}

InitSum ==
    /\ pc = "Summarize"
    /\ cidrs \in ListInputs \cup {<<>>}
    /\ res = <<>>
    /\ err = ""
    /\ IdleCIDR /\ IdleCover /\ IdleArith /\ IdleQuery
    /\ IdleMem /\ IdleGo

ApplySummarize ==
    /\ pc = "Summarize"
    /\ LET r == Summarize(cidrs)
       IN  res' = r.res /\ err' = r.err
    /\ pc' = "done"
    /\ UNCHANGED <<memVars, goVars, queryVars, cidrVars, cidrs, coverVars, arithVars>>

NextSum == ApplySummarize
SpecSum == InitSum /\ [][NextSum]_vars

\* two distinct networks of one prefix length p > 0 that together are exactly
\* one aligned network of prefix p - 1
Siblings(x, y) ==
    /\ x.plen = y.plen /\ x.plen > 0 /\ x.base # y.base
    /\ x.base \div Pow2(BitLen - x.plen + 1) = y.base \div Pow2(BitLen - y.plen + 1)
ParentOf(x) == [base |-> x.base - (x.base % Pow2(BitLen - x.plen + 1)), plen |-> x.plen - 1]

\* C2: Summarize returns a list whose ranges have the same union as the
\* input's, and every input network lies inside one output network.
C2_SummarizeUnion ==
    pc = "done" =>
        /\ err = ""
        /\ UnionRange(res, Len(res)) = UnionRange(cidrs, Len(cidrs))
        /\ \A i \in 1 .. Len(cidrs) : \E j \in 1 .. Len(res) : Range(cidrs[i]) \subseteq Range(res[j])

\* C3: no two networks of a list Summarize returns overlap or are mergeable
\* siblings; the two halves of a network summarize to exactly that network.
C3_NoOverlapNoSiblings ==
    /\ (pc = "done" /\ err = "") =>
          \A i \in 1 .. Len(res) : \A j \in (i + 1) .. Len(res) :
              /\ Range(res[i]) \cap Range(res[j]) = {}
              /\ ~Siblings(res[i], res[j])
    /\ (pc = "done" /\ Len(cidrs) = 2 /\ Siblings(cidrs[1], cidrs[2])) =>
          (err = "" /\ res = <<ParentOf(cidrs[1])>>)

\* a cascade: three or more inputs, none of them the result, merged into one
C3_Witness ==
    /\ pc = "done" /\ err = ""
    /\ Len(cidrs) >= 3 /\ Len(res) = 1
    /\ \A i \in 1 .. Len(cidrs) : cidrs[i] # res[1]
    /\ \E i, j \in 1 .. Len(cidrs) : Siblings(cidrs[i], cidrs[j])

\* two networks of one prefix length, y right after x, with different parents
AdjacentNotSiblings(x, y) ==
    /\ x.plen = y.plen /\ x.plen > 0
    /\ y.base = x.base + Pow2(BitLen - x.plen)
    /\ ~Siblings(x, y)

\* C28: two networks of equal prefix length p that are numerically adjacent
\* but not siblings are never merged: Summarize of a list made of such a
\* pair, in any order and with repetitions, returns the two networks and no
\* network of prefix p - 1.
C28_NoMergeAcrossParents ==
    pc = "done" =>
        \A i, j \in 1 .. Len(cidrs) :
            (/\ AdjacentNotSiblings(cidrs[i], cidrs[j])
             /\ \A k \in 1 .. Len(cidrs) : cidrs[k] \in {cidrs[i], cidrs[j]}) =>
                (err = "" /\ res = <<cidrs[i], cidrs[j]>>)

C28_Witness ==
    /\ pc = "done" /\ err = ""
    /\ Len(cidrs) = 3
    /\ AdjacentNotSiblings(cidrs[3], cidrs[1])
    /\ cidrs[2] = cidrs[1]
    /\ res = <<cidrs[3], cidrs[1]>>

\* a list with two neighbours exchanged
SwapAt(l, i) == [k \in 1 .. Len(l) |-> IF k = i THEN l[i + 1] ELSE IF k = i + 1 THEN l[i] ELSE l[k]]

\* C30: Summarize does not depend on the order of its input or on
\* repetitions in it, returns a list strictly ascending by base, and
\* returns its own output unchanged.
C30_OrderDupIdempotent ==
    pc = "done" =>
        /\ \A i \in 1 .. (Len(cidrs) - 1) :
              LET r == Summarize(SwapAt(cidrs, i)) IN r.res = res /\ r.err = err
        /\ Len(cidrs) > 0 =>
              /\ LET r == Summarize(Append(cidrs, cidrs[1])) IN r.res = res /\ r.err = err
              /\ LET r == Summarize(<<cidrs[Len(cidrs)]>> \o cidrs) IN r.res = res /\ r.err = err
        /\ err = "" =>
              /\ \A i \in 1 .. (Len(res) - 1) : res[i].base < res[i + 1].base
              /\ LET r == Summarize(res) IN r.res = res /\ r.err = ""

C30_Witness ==
    /\ pc = "done" /\ err = ""
    /\ Len(cidrs) = 3 /\ Len(res) = 2
    /\ cidrs[1].base > cidrs[2].base /\ cidrs[2].base > cidrs[3].base
    /\ res[1] # cidrs[3]

\* ======================================================================
\* Supernet
\* ======================================================================
InitSuper ==
    /\ pc = "Supernet"
    /\ cidrs \in ListInputs \cup {<<>>}
    /\ res = <<>>
    /\ err = ""
    /\ IdleCIDR /\ IdleCover /\ IdleArith /\ IdleQuery
    /\ IdleMem /\ IdleGo

ApplySupernet ==
    /\ pc = "Supernet"
    /\ LET r == Supernet(cidrs)
       IN  net' = r.c /\ err' = r.err
    /\ pc' = "done"
    /\ UNCHANGED <<memVars, goVars, queryVars, arg, it, cidrs, res, coverVars, arithVars>>

NextSuper == ApplySupernet
SpecSuper == InitSuper /\ [][NextSuper]_vars

\* the aligned block of prefix p that holds address v
BlockAt(v, p) == [base |-> v - (v % Pow2(BitLen - p)), plen |-> p]
Reversed(l) == [i \in 1 .. Len(l) |-> l[Len(l) + 1 - i]]

\* C9: Supernet of a non-empty list returns a network that contains every
\* network of the list, no network with a longer prefix does, a single
\* network is its own supernet, and the order of the list does not matter.
C9_Supernet ==
    (pc = "done" /\ cidrs # <<>>) =>
        /\ err = ""
        /\ \A i \in 1 .. Len(cidrs) : Range(cidrs[i]) \subseteq Range(net)
        /\ \A p \in (net.plen + 1) .. BitLen :
              ~(UnionRange(cidrs, Len(cidrs)) \subseteq Range(BlockAt(cidrs[1].base, p)))
        /\ Len(cidrs) = 1 => net = cidrs[1]
        /\ Supernet(Reversed(cidrs)).c = net

\* ======================================================================
\* Address arithmetic
\* ======================================================================
\* deltas on both sides of 0, past 2^64 (the fast path's limit) and past 2^128
Deltas == (0 - Mod - WordMod) .. (Mod + WordMod)

InitArith ==
    /\ pc = "arith"
    /\ a \in ValidAddrs
    /\ delta \in Deltas
    /\ sum = NilAddr
    /\ err = ""
    /\ cidrs = <<>> /\ res = <<>>
    /\ IdleCIDR /\ IdleCover /\ IdleQuery
    /\ IdleMem /\ IdleGo

DoAdd ==
    /\ pc = "arith"
    /\ sum' = Add(a, delta)
    /\ pc' = "Add"
    /\ err' = IF sum' = PanicAddr THEN "panic" ELSE ""
    /\ UNCHANGED <<memVars, goVars, queryVars, cidrVars, cidrs, res, coverVars, a, delta>>

DoSub ==
    /\ pc = "arith"
    /\ sum' = Sub(a, delta)
    /\ pc' = "Sub"
    /\ err' = IF sum' = PanicAddr THEN "panic" ELSE ""
    /\ UNCHANGED <<memVars, goVars, queryVars, cidrVars, cidrs, res, coverVars, a, delta>>

\* Offset takes a uint64
DoOffset ==
    /\ pc = "arith"
    /\ delta \in 0 .. (WordMod - 1)
    /\ sum' = Offset(a, delta)
    /\ pc' = "Offset"
    /\ err' = IF sum' = PanicAddr THEN "panic" ELSE ""
    /\ UNCHANGED <<memVars, goVars, queryVars, cidrVars, cidrs, res, coverVars, a, delta>>

NextArith == DoAdd \/ DoSub \/ DoOffset
SpecArith == InitArith /\ [][NextArith]_vars

\* C10: for delta >= 0, a.Add(delta) is the address of value (a + delta) mod
\* 2^128, and a.Offset(u) is the same address as a.Add(u).
C10_AddMod ==
    /\ (pc = "Add" /\ delta >= 0) => sum = (a + delta) % Mod
    /\ pc = "Offset" => (sum = (a + delta) % Mod /\ sum = Add(a, delta))

\* C11: for delta >= 0 of any size, a.Sub(delta) is the address of value
\* (a - delta) mod 2^128, and a.Add(-delta) is that same address.
C11_SubMod ==
    /\ (pc = "Sub" /\ delta >= 0) => sum = (a - delta) % Mod
    /\ (pc = "Add" /\ delta <= 0) => (sum = (a + delta) % Mod /\ sum = Sub(a, 0 - delta))

\* C12: for |delta| < 2^64, Add and Sub (which take the hi/lo fast path)
\* return what the big.Int path computes for the same receiver and delta,
\* the empty Address{} included.
C12_FastIsBig ==
    /\ (pc = "Add" /\ Abs(delta) < WordMod) =>
          sum = (IF delta < 0 THEN SubBig(a, Abs(delta)) ELSE AddBig(a, delta))
    /\ (pc = "Sub" /\ Abs(delta) < WordMod) =>
          sum = (IF delta < 0 THEN AddBig(a, Abs(delta)) ELSE SubBig(a, delta))

\* the fast path of Add carried into the upper word
C12_Witness ==
    /\ pc = "Add" /\ delta > 0 /\ delta < WordMod
    /\ sum \in ValidAddrs /\ lo(sum) < lo(a) /\ hi(sum) = hi(a) + 1

\* ======================================================================
\* CoverRange as one call
\* ======================================================================
\* the loop from cursor cur on; it stops by returning, by panicking, or not
\* at all (cut off here after MaxBlocks blocks)
RECURSIVE CoverLoop(_, _, _)
CoverLoop(c, e, r) ==
    IF ~CoverContinues(c, e) THEN [res |-> r, err |-> ""]
    ELSE IF Len(r) >= MaxBlocks THEN [res |-> r, err |-> "diverges"]
    ELSE LET b == CoverBody(c, e)
         IN  IF b.panic THEN [res |-> r, err |-> "panic"]
             ELSE CoverLoop(b.cur, e, Append(r, b.cid))

CoverRange(s, e) ==
    IF CoverRangeErr(s, e) THEN [res |-> <<>>, err |-> "invalid range"]
    ELSE CoverLoop(s, e, <<>>)

\* ======================================================================
\* A caller constructing networks and deriving networks from them
\* ======================================================================
MaxPrefixText == 2
PrefixTexts == UNION {[1 .. n -> 0 .. NonDigit] : n \in 0 .. MaxPrefixText}
\* texts for ParseCIDR: with one "/", any address part and any prefix part;
\* with none or two, one text each
CIDRTexts ==
    {[nparts |-> 2, ip |-> ip, ptext |-> t] : ip \in {NilAddr} \cup (0 .. MaxAddr), t \in PrefixTexts}
        \cup {[nparts |-> n, ip |-> 0, ptext |-> <<>>] : n \in {1, 3}}

\* the caller holds a network that a call returned without error
HoldsNet == err # "panic" /\ err # "diverges" /\ net # ZeroCIDR
HoldsList == err # "panic" /\ err # "diverges" /\ res # <<>>

Init ==
    /\ pc = "start"
    /\ err = ""
    /\ net = ZeroCIDR /\ arg = 0 /\ it = NoIter
    /\ cidrs = <<>> /\ res = <<>>
    /\ IdleCover /\ IdleArith /\ IdleQuery
    /\ IdleMem /\ IdleGo

DoNewCIDR ==
    /\ pc = "start"
    /\ \E v \in ValidAddrs, p \in (0 - 1) .. (BitLen + 1) :
          LET r == NewCIDR(v, p)
          IN  net' = r.c /\ err' = r.err /\ arg' = p /\ a' = v
    /\ pc' = "NewCIDR"
    /\ UNCHANGED <<memVars, goVars, queryVars, it, cidrs, res, coverVars, delta, sum>>

DoParseCIDR ==
    /\ pc = "start"
    /\ \E t \in CIDRTexts :
          LET r == ParseCIDR(t.nparts, t.ip, t.ptext)
          IN  net' = r.c /\ err' = r.err /\ a' = t.ip
    /\ pc' = "ParseCIDR"
    /\ UNCHANGED <<memVars, goVars, queryVars, arg, it, cidrs, res, coverVars, delta, sum>>

\* a call on the held network that returns one network
Derive(name, c) ==
    /\ pc' = name
    /\ IF c = PanicCIDR THEN err' = "panic" /\ net' = net ELSE err' = "" /\ net' = c
    /\ it' = NoIter /\ res' = <<>> /\ arg' = 0 /\ a' = NilAddr
    /\ UNCHANGED <<memVars, goVars, queryVars, cidrs, coverVars, delta, sum>>

DoNext == HoldsNet /\ Derive("Next", Next(net))
DoPrev == HoldsNet /\ Derive("Prev", Prev(net))

DoSplit ==
    /\ HoldsNet
    /\ \E newPrefix \in (0 - 1) .. (BitLen + 1) :
          LET r == Split(net, newPrefix)
          IN  res' = r.res /\ err' = r.err /\ arg' = newPrefix
    /\ pc' = "Split"
    /\ it' = NoIter /\ a' = NilAddr
    /\ UNCHANGED <<memVars, goVars, queryVars, net, cidrs, coverVars, delta, sum>>

DoSubnetIterator ==
    /\ HoldsNet
    /\ \E newPrefix \in (0 - 1) .. (BitLen + 1) :
          LET r == SubnetIterator(net, newPrefix)
          IN  it' = r.it /\ err' = r.err /\ arg' = newPrefix
    /\ pc' = "SubnetIterator"
    /\ res' = <<>> /\ a' = NilAddr
    /\ UNCHANGED <<memVars, goVars, queryVars, net, cidrs, coverVars, delta, sum>>

\* it.Next() on the iterator the last call returned or advanced
DoIterNext ==
    /\ pc \in {"SubnetIterator", "IterNext", "IterDone"}
    /\ err = ""
    /\ LET r == IterNext(it)
       IN  /\ it' = r.it
           /\ net' = IF r.panic THEN net ELSE r.c
           /\ err' = IF r.panic THEN "panic" ELSE ""
           /\ pc' = IF r.ok \/ r.panic THEN "IterNext" ELSE "IterDone"
    /\ UNCHANGED <<memVars, goVars, queryVars, arg, cidrs, res, coverVars, arithVars>>

\* the caller takes one element of the slice it was given
DoPick ==
    /\ HoldsList
    /\ \E i \in 1 .. Len(res) : net' = res[i]
    /\ pc' = "Pick"
    /\ err' = "" /\ res' = <<>> /\ it' = NoIter /\ arg' = 0 /\ a' = NilAddr
    /\ UNCHANGED <<memVars, goVars, queryVars, cidrs, coverVars, delta, sum>>

\* a call that returns a slice
ListResult(name, r) ==
    /\ pc' = name
    /\ res' = r.res /\ err' = r.err
    /\ net' = ZeroCIDR /\ it' = NoIter /\ arg' = 0 /\ a' = NilAddr
    /\ UNCHANGED <<memVars, goVars, queryVars, cidrs, coverVars, delta, sum>>

\* Summarize of a fresh list, or of the slice an earlier call returned
DoSummarize ==
    \/ pc = "start" /\ \E l \in ListInputs : ListResult("Summarize", Summarize(l))
    \/ HoldsList /\ ListResult("Summarize", Summarize(res))

DoCoverRange ==
    \/ pc = "start" /\ \E s, e \in ValidAddrs : ListResult("CoverRange", CoverRange(s, e))
    \/ HoldsNet /\ ListResult("CoverRange", CoverRange(FirstHost(net), LastHost(net)))

DoSupernet ==
    /\ \/ pc = "start" /\ \E l \in ListInputs \cup {<<>>} : Derive("Supernet", Supernet(l).c)
       \/ HoldsList /\ Derive("Supernet", Supernet(res).c)
    /\ net' # ZeroCIDR

Next_ ==
    \/ DoNewCIDR \/ DoParseCIDR \/ DoNext \/ DoPrev \/ DoSplit
    \/ DoSubnetIterator \/ DoIterNext \/ DoPick
    \/ DoSummarize \/ DoCoverRange \/ DoSupernet
Spec == Init /\ [][Next_]_vars

\* a network in canonical form: prefix length in range, a 16-byte base that is
\* no IPv4-mapped form, all bits of the base beyond the prefix zero
Canonical(c) ==
    /\ c.plen \in 0 .. BitLen
    /\ c.base \in ValidAddrs
    /\ c.base % Pow2(BitLen - c.plen) = 0
    /\ Mask(c.base, c.plen) = c.base

\* C1: every network a construction path hands to the caller, alone or in a
\* slice, has 0 <= plen <= 128 and base == base.Mask(plen).
C1_Canonical ==
    /\ net # ZeroCIDR => Canonical(net)
    /\ \A i \in 1 .. Len(res) : Canonical(res[i])

\* NewCIDR got an address with host bits set and returned the masked network
C1_Witness == pc = "NewCIDR" /\ err = "" /\ a # net.base /\ Canonical(net)

\* Split was called with N.plen <= newPrefix <= 128 inside the size cap
SplitCalled ==
    /\ pc = "Split"
    /\ net.plen <= arg /\ arg <= BitLen
    /\ Pow2(arg - net.plen) <= MaxSplitParts

\* C4: the subnets Split(N, p) returns lie inside N, do not overlap one
\* another, and together cover exactly N's range.
C4_SplitPartition ==
    SplitCalled =>
        /\ err = ""
        /\ \A i \in 1 .. Len(res) : Range(res[i]) \subseteq Range(net)
        /\ \A i \in 1 .. Len(res) : \A j \in (i + 1) .. Len(res) : Range(res[i]) \cap Range(res[j]) = {}
        /\ UnionRange(res, Len(res)) = Range(net)

\* C5: Split(N, p) returns 2^(p - N.plen) networks, the i-th (from 0) being
\* N.base + i * 2^(128 - p) with prefix p; for p = N.plen that is <<N>>.
C5_SplitParts ==
    SplitCalled =>
        /\ err = ""
        /\ Len(res) = Pow2(arg - net.plen)
        /\ \A i \in 1 .. Len(res) :
              res[i] = [base |-> net.base + (i - 1) * Pow2(BitLen - arg), plen |-> arg]
        /\ arg = net.plen => res = <<net>>

\* C14: no call of Next, Prev, Split, SubnetIterator, its Next, Summarize,
\* CoverRange or Supernet on networks and addresses the package returned
\* without error panics.
C14_NoPanic ==
    pc \in {"Next", "Prev", "Split", "SubnetIterator", "IterNext", "IterDone",
            "Summarize", "CoverRange", "Supernet"} => err # "panic"

\* C21: Split and SubnetIterator return ErrInvalidSplitPrefix exactly when
\* newPrefix < plen or newPrefix > 128, otherwise ErrSplitExcessive exactly
\* when 2^(newPrefix - plen) > MaxSplitParts, with nothing allocated or
\* produced; a split into exactly MaxSplitParts parts succeeds.
C21_SplitErrors ==
    pc \in {"Split", "SubnetIterator"} =>
        LET outside == arg < net.plen \/ arg > BitLen
            excessive == ~outside /\ Pow2(arg - net.plen) > MaxSplitParts
        IN  /\ (err = "ErrInvalidSplitPrefix") <=> outside
            /\ (err = "ErrSplitExcessive") <=> excessive
            /\ (outside \/ excessive) => (res = <<>> /\ it = NoIter)
            /\ (~outside /\ Pow2(arg - net.plen) = MaxSplitParts) =>
                  /\ err = ""
                  /\ pc = "Split" => Len(res) = MaxSplitParts
                  /\ pc = "SubnetIterator" => it.remaining = MaxSplitParts

\* ======================================================================
\* A caller constructing an address and deriving addresses from it
\* ======================================================================
\* deltas on both sides of 0, on the fast path and just past it
ChainDeltas == (0 - WordMod - 1) .. (WordMod + 1)

InitChain ==
    /\ pc = "start"
    /\ err = ""
    /\ cidrs = <<>> /\ res = <<>>
    /\ IdleCIDR /\ IdleCover /\ IdleArith /\ IdleQuery
    /\ IdleMem /\ IdleGo

\* a constructor returned (sum, err); num is what it was given
Made(name, v, r, e) ==
    /\ pc' = name
    /\ num' = v /\ sum' = r /\ err' = e
    /\ a' = NilAddr /\ delta' = 0 /\ arg' = 0 /\ net' = ZeroCIDR
    /\ UNCHANGED <<memVars, goVars, it, cidrs, res, coverVars, other, bAddr, flag, text>>

\* Parse of a text that net.ParseIP reads as ip (NilAddr: not an address)
MakeParse ==
    /\ pc = "start"
    /\ \E ip \in {NilAddr} \cup (0 .. MaxAddr) :
          Made("Parse", ip, Parse(ip), IF ParseErr(ip) THEN "ErrInvalidAddress" ELSE "")

\* NewAddress of a 16-byte slice of value v (NilAddr: a slice To16 rejects)
MakeNewAddress ==
    /\ pc = "start"
    /\ \E v \in {NilAddr} \cup (0 .. MaxAddr) :
          IF v = NilAddr \/ NewAddressErr(v)
          THEN Made("NewAddress", v, NilAddr, "ErrInvalidAddress")
          ELSE Made("NewAddress", v, NewAddress(v), "")

MakeFromBigInt ==
    /\ pc = "start"
    /\ \E v \in (0 - 1) .. Mod :
          Made("AddressFromBigInt", v, AddressFromBigInt(v),
               IF AddressFromBigIntErr(v) THEN "ErrInvalidAddress" ELSE "")

\* the caller holds the address the last call returned without error or panic
HoldsAddr == pc # "start" /\ err = ""

\* a method of the held address returned r (PanicAddr: it panicked)
Then(name, d, p, c, r) ==
    /\ pc' = name
    /\ a' = sum /\ delta' = d /\ arg' = p /\ net' = c
    /\ sum' = r
    /\ err' = IF r = PanicAddr THEN "panic" ELSE ""
    /\ num' = 0
    /\ UNCHANGED <<memVars, goVars, it, cidrs, res, coverVars, other, bAddr, flag, text>>

ThenAdd == HoldsAddr /\ \E d \in ChainDeltas : Then("Add", d, 0, ZeroCIDR, Add(sum, d))
ThenSub == HoldsAddr /\ \E d \in ChainDeltas : Then("Sub", d, 0, ZeroCIDR, Sub(sum, d))
ThenOffset == HoldsAddr /\ \E u \in 0 .. (WordMod - 1) : Then("Offset", u, 0, ZeroCIDR, Offset(sum, u))
ThenMask == HoldsAddr /\ \E p \in 0 .. BitLen : Then("Mask", 0, p, ZeroCIDR, Mask(sum, p))

\* NewCIDR(held, p) and then a method of that network
ThenLastHost ==
    /\ HoldsAddr
    /\ \E p \in 0 .. BitLen :
          LET n == NewCIDR(sum, p)
          IN  Then("LastHost", 0, p, n.c, IF n.err = "panic" THEN PanicAddr ELSE LastHost(n.c))

ThenNext ==
    /\ HoldsAddr
    /\ \E p \in 0 .. BitLen :
          LET n == NewCIDR(sum, p)
          IN  Then("Next", 0, p, n.c, IF n.err = "panic" THEN PanicAddr ELSE Next(n.c).base)

ThenPrev ==
    /\ HoldsAddr
    /\ \E p \in 0 .. BitLen :
          LET n == NewCIDR(sum, p)
          IN  Then("Prev", 0, p, n.c, IF n.err = "panic" THEN PanicAddr ELSE Prev(n.c).base)

NextChain ==
    \/ MakeParse \/ MakeNewAddress \/ MakeFromBigInt
    \/ ThenAdd \/ ThenSub \/ ThenOffset \/ ThenMask
    \/ ThenLastHost \/ ThenNext \/ ThenPrev
SpecChain == InitChain /\ [][NextChain]_vars

\* C13: every address a constructor returned without error, and every
\* address a later call returned, is 16 bytes that are not an IPv4-mapped
\* form; none is the empty Address{}.
C13_AddressValid == HoldsAddr => sum \in ValidAddrs

\* ======================================================================
\* Queries on one network, and on two
\* ======================================================================
\* the caller holds net alone (other is the zero CIDR) or net and other
InitRel ==
    /\ pc = "call"
    /\ net \in AllCIDRs
    /\ other \in AllCIDRs \cup {ZeroCIDR}
    /\ err = ""
    /\ arg = 0 /\ it = NoIter
    /\ cidrs = <<>> /\ res = <<>>
    /\ bAddr = NilAddr /\ num = 0 /\ flag = FALSE /\ text = <<>>
    /\ IdleCover /\ IdleArith
    /\ IdleMem /\ IdleGo

HoldsOne == pc = "call" /\ other = ZeroCIDR

RelHostCount ==
    /\ HoldsOne
    /\ num' = HostCount(net)
    /\ pc' = "HostCount"
    /\ UNCHANGED <<memVars, goVars, err, cidrVars, cidrs, res, coverVars, arithVars, other, bAddr, flag, text>>

RelFirstHost ==
    /\ HoldsOne
    /\ sum' = FirstHost(net)
    /\ pc' = "FirstHost"
    /\ UNCHANGED <<memVars, goVars, err, cidrVars, cidrs, res, coverVars, a, delta, queryVars>>

RelLastHost ==
    /\ HoldsOne
    /\ sum' = LastHost(net)
    /\ err' = IF sum' = PanicAddr THEN "panic" ELSE ""
    /\ pc' = "LastHost"
    /\ UNCHANGED <<memVars, goVars, cidrVars, cidrs, res, coverVars, a, delta, queryVars>>

\* a method of CIDR c returned the CIDR r (PanicCIDR: it panicked)
RelDerive(name, r) ==
    /\ pc' = name
    /\ IF r = PanicCIDR THEN err' = "panic" /\ other' = other ELSE err' = "" /\ other' = r
    /\ UNCHANGED <<memVars, goVars, cidrVars, cidrs, res, coverVars, arithVars, bAddr, num, flag, text>>

\* net.Next(), or Next() of what net.Prev() returned
RelNext ==
    \/ HoldsOne /\ RelDerive("Next", Next(net))
    \/ pc = "Prev" /\ err = "" /\ RelDerive("PrevNext", Next(other))

\* net.Prev(), or Prev() of what net.Next() returned
RelPrev ==
    \/ HoldsOne /\ RelDerive("Prev", Prev(net))
    \/ pc = "Next" /\ err = "" /\ RelDerive("NextPrev", Prev(other))

\* net.Overlaps(other), other given or what net.Next() returned
RelOverlaps ==
    /\ \/ pc = "call" /\ other # ZeroCIDR /\ pc' = "Overlaps"
       \/ pc = "Next" /\ err = "" /\ pc' = "NextOverlaps"
    /\ flag' = Overlaps(net, other)
    /\ UNCHANGED <<memVars, goVars, err, cidrVars, cidrs, res, coverVars, arithVars, other, bAddr, num, text>>

NextRel ==
    \/ RelHostCount \/ RelFirstHost \/ RelLastHost
    \/ RelNext \/ RelPrev \/ RelOverlaps
SpecRel == InitRel /\ [][NextRel]_vars

\* C15: HostCount() is 2^(128 - p), FirstHost() is the base, and LastHost()
\* is the valid address of value base + 2^(128 - p) - 1.
C15_Hosts ==
    /\ pc = "HostCount" => num = Pow2(BitLen - net.plen)
    /\ pc = "FirstHost" => sum = net.base
    /\ pc = "LastHost" => (sum \in ValidAddrs /\ sum = net.base + Pow2(BitLen - net.plen) - 1)

\* C16: N.Next().Prev() and N.Prev().Next() both return N, also across the
\* ends of the address space.
C16_NextPrev ==
    /\ pc \in {"Next", "Prev", "NextPrev", "PrevNext"} => err = ""
    /\ pc \in {"NextPrev", "PrevNext"} => other = net

\* C17: N.Next() has N's prefix length, its base is one past N's last
\* address, and it does not overlap N.
C17_NextAdjacent ==
    /\ pc = "Next" =>
          /\ err = ""
          /\ other.plen = net.plen
          /\ other.base = (Hi(net) + 1) % Mod
    /\ pc = "NextOverlaps" => (flag = FALSE /\ Range(net) \cap Range(other) = {})

RECURSIVE OverlapsEarlier(_, _)
OverlapsEarlier(c, o) ==
    IF c.plen <= o.plen
    THEN IF ContainsAddress(c, o.base) THEN [ok |-> TRUE, panic |-> FALSE]
         ELSE IF LastHost(c) \in {NilAddr, PanicAddr} THEN [ok |-> FALSE, panic |-> TRUE]
         ELSE [ok |-> ContainsAddress(o, LastHost(c)), panic |-> FALSE]
    ELSE OverlapsEarlier(o, c)

\* C29: A.Overlaps(B) holds exactly when A.ContainsCIDR(B) or
\* B.ContainsCIDR(A); ContainsCIDR is interval inclusion; and Overlaps
\* returns what the earlier containment-based Overlaps returned.
C29_OverlapsIsContainment ==
    pc = "Overlaps" =>
        /\ flag = (ContainsCIDR(net, other) \/ ContainsCIDR(other, net))
        /\ ContainsCIDR(net, other) = (Range(other) \subseteq Range(net))
        /\ OverlapsEarlier(net, other) = [ok |-> flag, panic |-> FALSE]

\* ======================================================================
\* Distance
\* ======================================================================
\* the caller holds a and either a second address bAddr, or (bAddr not yet
\* there) a non-negative k = delta with a + k < 2^128 to reach one by a.Add(k)
InitDist ==
    /\ pc = "call"
    /\ a \in ValidAddrs
    /\ \/ bAddr \in ValidAddrs /\ delta = 0
       \/ bAddr = NilAddr /\ delta \in 0 .. (MaxAddr - a)
    /\ sum = NilAddr
    /\ err = ""
    /\ cidrs = <<>> /\ res = <<>>
    /\ other = ZeroCIDR /\ num = 0 /\ flag = FALSE /\ text = <<>>
    /\ IdleCIDR /\ IdleCover
    /\ IdleMem /\ IdleGo

\* Distance(a, bAddr)
ApplyDistance ==
    /\ pc = "call" /\ bAddr # NilAddr
    /\ IF DistancePanics(a, bAddr)
       THEN err' = "panic" /\ num' = num
       ELSE err' = "" /\ num' = Distance(a, bAddr)
    /\ pc' = "Distance"
    /\ UNCHANGED <<memVars, goVars, cidrVars, cidrs, res, coverVars, arithVars, other, bAddr, flag, text>>

\* a.Add(k)
ApplyAddK ==
    /\ pc = "call" /\ bAddr = NilAddr
    /\ sum' = Add(a, delta)
    /\ err' = IF sum' = PanicAddr THEN "panic" ELSE ""
    /\ pc' = "Add"
    /\ UNCHANGED <<memVars, goVars, cidrVars, cidrs, res, coverVars, a, delta, queryVars>>

\* Distance(a, a.Add(k)) on the address Add returned
ApplyDistanceToSum ==
    /\ pc = "Add" /\ err = ""
    /\ IF DistancePanics(a, sum)
       THEN err' = "panic" /\ num' = num
       ELSE err' = "" /\ num' = Distance(a, sum)
    /\ pc' = "AddDistance"
    /\ UNCHANGED <<memVars, goVars, cidrVars, cidrs, res, coverVars, arithVars, other, bAddr, flag, text>>

NextDist == ApplyDistance \/ ApplyAddK \/ ApplyDistanceToSum
SpecDist == InitDist /\ [][NextDist]_vars

\* C19: Distance(a, b) is |a - b|, equals Distance(b, a), and
\* Distance(a, a.Add(k)) is k for k >= 0 with a + k < 2^128.
C19_Distance ==
    /\ pc = "Distance" =>
          /\ err = ""
          /\ num = Abs(a - bAddr)
          /\ num = Distance(bAddr, a)
    /\ pc = "AddDistance" => (err = "" /\ num = delta)

\* ======================================================================
\* Text of an address: String and back through Parse
\* ======================================================================
\* A text is the sequence of its fields.  The groups of an IPv6 text shrink
\* with the bytes (one group per byte here); the value of a group stands for
\* its hexadecimal digits, Gap for "::", Dotted opens a dotted IPv4 text and
\* NilText is "<nil>".
NumGroups == ByteLen
Gap == 0 - 1
Dotted == 0 - 2
NilText == 0 - 3
GroupAt(v, i) == ByteAt(v, i)

\* the number of consecutive zero groups from group i on
RECURSIVE ZeroRun(_, _)
ZeroRun(v, i) == IF i < NumGroups /\ GroupAt(v, i) = 0 THEN 1 + ZeroRun(v, i + 1) ELSE 0

\* the leftmost longest run of two or more zero groups, [zs, ze)
RECURSIVE LongestZeros(_, _, _, _)
LongestZeros(v, i, zs, ze) ==
    IF i >= NumGroups THEN [zs |-> zs, ze |-> ze]
    ELSE LET l == ZeroRun(v, i)
         IN  IF l >= 2 /\ l > ze - zs
             THEN LongestZeros(v, i + 1, i, i + l)
             ELSE LongestZeros(v, i + 1, zs, ze)

RECURSIVE AppendGroups(_, _, _, _)
AppendGroups(v, i, z, ret) ==
    IF i >= NumGroups THEN ret
    ELSE IF i = z.zs
         THEN IF z.ze >= NumGroups THEN Append(ret, Gap)
              ELSE AppendGroups(v, z.ze + 1, z, Append(Append(ret, Gap), GroupAt(v, z.ze)))
    ELSE AppendGroups(v, i + 1, z, Append(ret, GroupAt(v, i)))

\* a.String(): net.IP.String of the 16 bytes, "<nil>" for Address{}
IPString(v) ==
    IF v = NilAddr THEN <<NilText>>
    ELSE IF To4NonNil(v)
         THEN <<Dotted>> \o [i \in 1 .. (ByteLen - V4ZeroBytes - V4OnesBytes) |->
                                ByteAt(v, V4ZeroBytes + V4OnesBytes + i - 1)]
    ELSE AppendGroups(v, 0, LongestZeros(v, 0, NumGroups, NumGroups), <<>>)

GapCount(t) == Cardinality({i \in 1 .. Len(t) : t[i] = Gap})
GapAt(t) == CHOOSE i \in 1 .. Len(t) : t[i] = Gap

\* the groups of a text with one "::", which stands for the missing groups
ExpandGap(t) ==
    LET k == GapAt(t)
        missing == NumGroups - (Len(t) - 1)
    IN  SubSeq(t, 1, k - 1) \o [i \in 1 .. missing |-> 0] \o SubSeq(t, k + 1, Len(t))

\* net.ParseIP: the 16 bytes' value, NilAddr for nil
ParseIP(t) ==
    IF t = <<>> \/ t[1] = NilText THEN NilAddr
    ELSE IF t[1] = Dotted
         THEN IF Len(t) - 1 # ByteLen - V4ZeroBytes - V4OnesBytes THEN NilAddr
              ELSE FromBytes([i \in 1 .. V4ZeroBytes |-> 0] \o [i \in 1 .. V4OnesBytes |-> ByteMax]
                               \o Tail(t), ByteLen)
    ELSE IF GapCount(t) > 1 THEN NilAddr
    ELSE IF GapCount(t) = 0
         THEN IF Len(t) = NumGroups THEN FromBytes(t, NumGroups) ELSE NilAddr
    ELSE IF Len(t) - 1 >= NumGroups THEN NilAddr
    ELSE FromBytes(ExpandGap(t), NumGroups)

InitTrip ==
    /\ pc = "start"
    /\ err = ""
    /\ cidrs = <<>> /\ res = <<>>
    /\ IdleCIDR /\ IdleCover /\ IdleArith /\ IdleQuery
    /\ IdleMem /\ IdleGo

\* AddressFromBigInt(v)
TripFromBigInt ==
    /\ pc = "start"
    /\ \E v \in (0 - 1) .. Mod :
          /\ num' = v
          /\ sum' = AddressFromBigInt(v)
          /\ err' = IF AddressFromBigIntErr(v) THEN "ErrInvalidAddress" ELSE ""
    /\ pc' = "AddressFromBigInt"
    /\ UNCHANGED <<memVars, goVars, cidrVars, cidrs, res, coverVars, a, delta, other, bAddr, flag, text>>

\* NewAddress on the 16 big-endian bytes of v
TripNewAddress ==
    /\ pc = "start"
    /\ \E v \in 0 .. MaxAddr :
          /\ num' = v
          /\ sum' = NewAddress(v)
          /\ err' = IF NewAddressErr(v) THEN "ErrInvalidAddress" ELSE ""
    /\ pc' = "NewAddress"
    /\ UNCHANGED <<memVars, goVars, cidrVars, cidrs, res, coverVars, a, delta, other, bAddr, flag, text>>

\* String() of the address a constructor returned without error
TripString ==
    /\ pc \in {"AddressFromBigInt", "NewAddress"} /\ err = ""
    /\ text' = IPString(sum)
    /\ a' = sum
    /\ pc' = "String"
    /\ UNCHANGED <<memVars, goVars, err, cidrVars, cidrs, res, coverVars, delta, sum, other, bAddr, num, flag>>

\* Parse of that text
TripParse ==
    /\ pc = "String"
    /\ LET ip == ParseIP(text)
       IN  /\ sum' = Parse(ip)
           /\ err' = IF ParseErr(ip) THEN "ErrInvalidAddress" ELSE ""
    /\ pc' = "Parse"
    /\ UNCHANGED <<memVars, goVars, cidrVars, cidrs, res, coverVars, a, delta, queryVars>>

NextTrip == TripFromBigInt \/ TripNewAddress \/ TripString \/ TripParse
SpecTrip == InitTrip /\ [][NextTrip]_vars

MaxExtraCalls == 2

InitIter ==
    /\ pc = "call"
    /\ net \in AllCIDRs
    /\ arg \in (0 - 1) .. (BitLen + 1)
    /\ err = ""
    /\ it = NoIter
    /\ cidrs = <<>> /\ res = <<>>
    /\ IdleQuery /\ IdleCover /\ IdleArith
    /\ IdleMem /\ IdleGo

\* net.Split(arg); cidrs holds the slice, <<PanicCIDR>> when the call panicked
IterSplit ==
    /\ pc = "call"
    /\ LET r == Split(net, arg)
       IN  /\ cidrs' = IF r.err = "panic" THEN <<PanicCIDR>> ELSE r.res
           /\ err' = r.err
    /\ pc' = "Split"
    /\ UNCHANGED <<memVars, goVars, net, arg, it, res, coverVars, arithVars, queryVars>>

\* net.SubnetIterator(arg)
IterCreate ==
    /\ pc = "Split"
    /\ LET r == SubnetIterator(net, arg)
       IN  it' = r.it /\ err' = r.err
    /\ pc' = "SubnetIterator"
    /\ UNCHANGED <<memVars, goVars, net, arg, cidrs, res, coverVars, arithVars, queryVars>>

\* one call of it.Next(): res collects what the calls yielded, other and flag
\* are the call's two results, num counts the calls
IterCall ==
    /\ pc \in {"SubnetIterator", "IterNext", "IterDone"}
    /\ err = ""
    /\ num < Pow2(arg - net.plen) + MaxExtraCalls
    /\ LET r == IterNext(it)
       IN  /\ it' = r.it
           /\ other' = r.c
           /\ flag' = r.ok
           /\ res' = IF r.ok THEN Append(res, r.c) ELSE res
           /\ err' = IF r.panic THEN "panic" ELSE ""
           /\ pc' = IF r.panic THEN "IterPanic" ELSE IF r.ok THEN "IterNext" ELSE "IterDone"
    /\ num' = num + 1
    /\ UNCHANGED <<memVars, goVars, net, arg, cidrs, coverVars, arithVars, bAddr, text>>

NextIter == IterSplit \/ IterCreate \/ IterCall
SpecIter == InitIter /\ [][NextIter]_vars

IsSplitError(e) == e \in {"ErrInvalidSplitPrefix", "ErrSplitExcessive"}

\* C22: SubnetIterator(newPrefix) fails with the same error as
\* Split(newPrefix), and when both succeed the CIDRs that Next yields until
\* it returns false are, element by element and in order, the slice Split
\* returned; a call of Next panics only where Split panicked, after yielding
\* no more than Split's loop had built.
C22_IterEqualsSplit ==
    [][/\ pc' = "SubnetIterator" =>
            /\ (IsSplitError(err) \/ IsSplitError(err')) => err' = err
            /\ err' = "" => err \in {"", "panic"}
       /\ pc' = "IterDone" => (cidrs' # <<PanicCIDR>> /\ res' = cidrs')
       /\ pc' = "IterNext" =>
            (cidrs' # <<PanicCIDR>> =>
                /\ Len(res') <= Len(cidrs')
                /\ res'[Len(res')] = cidrs'[Len(res')])
       /\ pc' = "IterPanic" => cidrs' = <<PanicCIDR>>]_vars

C22_Witness ==
    /\ pc = "IterDone"
    /\ Len(cidrs) = MaxSplitParts
    /\ res = cidrs
    /\ net.plen > 0

\* C23: an iterator created for 2^k parts returns (subnet, true) on exactly
\* its first 2^k calls of Next and (zero CIDR, false) on every later call,
\* with remaining at 0 and never negative once it is exhausted.
C23_Exhaustion ==
    /\ pc # "IterPanic"
    /\ pc \in {"SubnetIterator", "IterNext", "IterDone"} /\ err = "" =>
          LET parts == Pow2(arg - net.plen)
          IN  /\ it.remaining >= 0
              /\ num <= parts =>
                    /\ it.remaining = parts - num
                    /\ Len(res) = num
                    /\ num > 0 => (flag /\ other = res[num])
              /\ num > parts =>
                    /\ it.remaining = 0
                    /\ ~flag /\ other = ZeroCIDR
                    /\ Len(res) = parts

\* ======================================================================
\* Errors: the calls of the library that can fail, the commands of the CLI
\* that make them, and the exit code Execute gives the process
\* ======================================================================
exitCodeInvalidInput == 2
exitCodeOverlap == 3
exitCodeSplitTooBig == 4
exitCodeOther == 1

\* Execute's switch on the error cmd.Execute() returned, everything the
\* process exits 1 for
ExitCode_AlwaysOne(e) == exitCodeOther

\* Execute's switch on the error cmd.Execute() returned
ExitCode(e) ==
    IF e \in {"ErrInvalidAddress", "ErrInvalidCIDR", "ErrInvalidPrefix", "ErrInvalidSplitPrefix"}
    THEN exitCodeInvalidInput
    ELSE IF e \in {"ErrSplitTooLarge", "ErrSplitExcessive"} THEN exitCodeSplitTooBig
    ELSE IF e = "OverlapError" THEN exitCodeOverlap
    ELSE exitCodeOther

\* the --force threshold of split, at the scale of MaxSplitParts
defaultSplitForceThreshold == MaxSplitParts \div 2

\* CIDR.String(): the text of the base, "/", the prefix length
CIDRString(c) == [ip |-> IPString(c.base), plen |-> c.plen]

RECURSIVE RenderList(_, _, _)
RenderList(subs, i, list) ==
    IF i > Len(subs) THEN list
    ELSE RenderList(subs, i + 1, Append(list, CIDRString(subs[i])))

\* the streaming loop of split: one line per subnet as it.Next() yields it
RECURSIVE StreamLoop(_, _)
StreamLoop(iter, out) ==
    LET r == IterNext(iter)
    IN  IF r.panic THEN [out |-> out, err |-> "panic"]
        ELSE IF ~r.ok THEN [out |-> out, err |-> ""]
        ELSE StreamLoop(r.it, Append(out, CIDRString(r.c)))

\* RunE of split on argument text t with the flags --new-prefix and --force,
\* the output format human or not, --table or not: the network parsed, the
\* lines written to standard output, the error returned
splitCmd(t, newPrefix, force, human, flagTable) ==
    LET pr == ParseCIDR(t.nparts, t.ip, t.ptext)
        c == pr.c
        diff == newPrefix - c.plen
        parts == IF diff > 0 THEN Pow2(diff) ELSE 1
        streamThreshold == defaultSplitForceThreshold \div 2
    IN  IF pr.err # "" THEN [c |-> ZeroCIDR, out |-> <<>>, err |-> pr.err]
        ELSE IF newPrefix < c.plen \/ newPrefix > BitLen
             THEN [c |-> c, out |-> <<>>, err |-> "invalid --new-prefix"]
        ELSE IF diff >= ShiftGuard THEN [c |-> c, out |-> <<>>, err |-> "ErrSplitExcessive"]
        ELSE IF parts > defaultSplitForceThreshold /\ ~force
             THEN [c |-> c, out |-> <<>>, err |-> "ErrSplitTooLarge"]
        ELSE IF parts > streamThreshold /\ human /\ ~force /\ ~flagTable /\ diff > 0
             THEN LET ir == SubnetIterator(c, newPrefix)
                  IN  IF ir.err # "" THEN [c |-> c, out |-> <<>>, err |-> ir.err]
                      ELSE LET sl == StreamLoop(ir.it, <<>>)
                           IN  [c |-> c, out |-> sl.out, err |-> sl.err]
        ELSE LET sr == Split(c, newPrefix)
             IN  IF sr.err # "" THEN [c |-> c, out |-> <<>>, err |-> sr.err]
                 ELSE [c |-> c, out |-> RenderList(sr.res, 1, <<>>), err |-> ""]

\* the end of RunE of range: the error of CoverRange, or its blocks rendered
rangeRender(cr) ==
    IF cr.err # "" THEN [out |-> <<>>, err |-> cr.err]
    ELSE [out |-> RenderList(cr.res, 1, <<>>), err |-> ""]

\* RunE of range on an argument with nparts "-"-separated parts, the first
\* two read by net.ParseIP as sip and eip
rangeCmd(nparts, sip, eip) ==
    IF nparts # 2 THEN [out |-> <<>>, err |-> "invalid range format"]
    ELSE IF ParseErr(sip) \/ ParseErr(eip) THEN [out |-> <<>>, err |-> "ErrInvalidAddress"]
    ELSE CHOOSE r \in {rangeRender(cr) :
                          cr \in {CoverRange(s, e) : s \in {Parse(sip)}, e \in {Parse(eip)}}} : TRUE

\* the argument loop of supernet: the list parsed so far, or the first error
RECURSIVE ParseArgs(_, _, _)
ParseArgs(args, i, list) ==
    IF i > Len(args) THEN [list |-> list, err |-> ""]
    ELSE LET pr == ParseCIDR(args[i].nparts, args[i].ip, args[i].ptext)
         IN  IF pr.err # "" THEN [list |-> <<>>, err |-> pr.err]
             ELSE ParseArgs(args, i + 1, Append(list, pr.c))

\* RunE of supernet on its arguments (cobra.MinimumNArgs(1))
supernetCmd(args) ==
    LET pa == ParseArgs(args, 1, <<>>)
    IN  IF pa.err # "" THEN [out |-> <<>>, err |-> pa.err]
        ELSE LET sr == Supernet(pa.list)
             IN  IF sr.err # "" THEN [out |-> <<>>, err |-> sr.err]
                 ELSE [out |-> <<CIDRString(sr.c)>>, err |-> ""]

\* address parts of the texts given on the command line
CmdAddrs == {NilAddr, 0, 1, ByteMax + 1, Pow2(HalfBits) - Pow2(ByteBits) - 1,
             Pow2(HalfBits) - Pow2(ByteBits), Pow2(HalfBits), MaxAddr - 1, MaxAddr}
CmdTexts == {t \in CIDRTexts : t.ip \in CmdAddrs}
MaxArgs == 2
SupernetAddrs == {NilAddr, 0, Pow2(HalfBits) - Pow2(ByteBits), Pow2(HalfBits), MaxAddr}
SupernetTexts == {t \in CIDRTexts : t.ip \in SupernetAddrs /\ Len(t.ptext) <= 1}
SupernetLists ==
    ListsOver(AllCIDRs, 1) \cup ListsOver(SumPool, 2) \cup {<<>>}

InitCli ==
    /\ pc = "call"
    /\ err = ""
    /\ IdleCIDR /\ cidrs = <<>> /\ res = <<>>
    /\ IdleCover /\ IdleArith /\ IdleQuery
    /\ IdleMem /\ IdleGo

LibParse ==
    /\ pc = "call"
    /\ \E ip \in {NilAddr} \cup (0 .. MaxAddr) :
          /\ a' = ip
          /\ sum' = Parse(ip)
          /\ err' = IF ParseErr(ip) THEN "ErrInvalidAddress" ELSE ""
    /\ pc' = "Parse"
    /\ UNCHANGED <<memVars, goVars, cidrVars, cidrs, res, coverVars, delta, queryVars>>

LibNewCIDR ==
    /\ pc = "call"
    /\ \E v \in ValidAddrs, p \in (0 - 1) .. (BitLen + 1) :
          LET r == NewCIDR(v, p)
          IN  net' = r.c /\ err' = r.err /\ arg' = p /\ a' = v
    /\ pc' = "NewCIDR"
    /\ UNCHANGED <<memVars, goVars, it, cidrs, res, coverVars, delta, sum, queryVars>>

LibParseCIDR ==
    /\ pc = "call"
    /\ \E t \in CIDRTexts :
          LET r == ParseCIDR(t.nparts, t.ip, t.ptext)
          IN  net' = r.c /\ err' = r.err /\ a' = t.ip /\ text' = t.ptext /\ num' = t.nparts
    /\ pc' = "ParseCIDR"
    /\ UNCHANGED <<memVars, goVars, arg, it, cidrs, res, coverVars, delta, sum, other, bAddr, flag>>

LibSplit ==
    /\ pc = "call"
    /\ \E c \in AllCIDRs, newPrefix \in (0 - 1) .. (BitLen + 1) :
          LET r == Split(c, newPrefix)
          IN  net' = c /\ arg' = newPrefix /\ res' = r.res /\ err' = r.err
    /\ pc' = "Split"
    /\ UNCHANGED <<memVars, goVars, it, cidrs, coverVars, arithVars, queryVars>>

LibSubnetIterator ==
    /\ pc = "call"
    /\ \E c \in AllCIDRs, newPrefix \in (0 - 1) .. (BitLen + 1) :
          LET r == SubnetIterator(c, newPrefix)
          IN  net' = c /\ arg' = newPrefix /\ it' = r.it /\ err' = r.err
    /\ pc' = "SubnetIterator"
    /\ UNCHANGED <<memVars, goVars, cidrs, res, coverVars, arithVars, queryVars>>

LibSupernet ==
    /\ pc = "call"
    /\ \E l \in SupernetLists :
          LET r == Supernet(l)
          IN  /\ cidrs' = l
              /\ net' = IF r.err = "panic" THEN ZeroCIDR ELSE r.c
              /\ err' = r.err
    /\ pc' = "Supernet"
    /\ UNCHANGED <<memVars, goVars, arg, it, res, coverVars, arithVars, queryVars>>

LibCoverRange ==
    /\ pc = "call"
    /\ \E s, e \in ValidAddrs :
          LET r == CoverRange(s, e)
          IN  start' = s /\ end' = e /\ res' = r.res /\ err' = r.err
    /\ pc' = "CoverRange"
    /\ UNCHANGED <<memVars, goVars, cidrVars, cidrs, cur, arithVars, queryVars>>

\* ip6calc split <t> --new-prefix <newPrefix> [--force] [--table] [-o ...]
CmdSplit ==
    /\ pc = "call"
    /\ \E t \in CmdTexts, newPrefix \in (0 - 1) .. (BitLen + 1),
          force \in BOOLEAN, human \in BOOLEAN, flagTable \in BOOLEAN :
          LET r == splitCmd(t, newPrefix, force, human, flagTable)
          IN  net' = r.c /\ arg' = newPrefix /\ flag' = force /\ res' = r.out /\ err' = r.err
    /\ pc' = "split"
    /\ UNCHANGED <<memVars, goVars, it, cidrs, coverVars, arithVars, other, bAddr, num, text>>

\* ip6calc range <start-end>
CmdRange ==
    /\ pc = "call"
    /\ \E nparts \in 1 .. 3, sip \in CmdAddrs, eip \in CmdAddrs :
          LET r == rangeCmd(nparts, sip, eip)
          IN  start' = sip /\ end' = eip /\ num' = nparts /\ res' = r.out /\ err' = r.err
    /\ pc' = "range"
    /\ UNCHANGED <<memVars, goVars, cidrVars, cidrs, cur, arithVars, other, bAddr, flag, text>>

\* ip6calc supernet <CIDR...>
CmdSupernet ==
    /\ pc = "call"
    /\ \E n \in 1 .. MaxArgs : \E args \in ListsOver(SupernetTexts, n) :
          LET r == supernetCmd(args)
          IN  cidrs' = args /\ res' = r.out /\ err' = r.err
    /\ pc' = "supernet"
    /\ UNCHANGED <<memVars, goVars, cidrVars, coverVars, arithVars, queryVars>>

\* Execute: a command returned an error; the process exits with its code
Execute ==
    /\ pc \in {"split", "range", "supernet"}
    /\ err \notin {"", "panic", "diverges"}
    /\ num' = ExitCode(err)
    /\ pc' = "exit"
    /\ UNCHANGED <<memVars, goVars, err, cidrVars, cidrs, res, coverVars, arithVars, other, bAddr, flag, text>>

NextCli ==
    \/ LibParse \/ LibNewCIDR \/ LibParseCIDR \/ LibSplit \/ LibSubnetIterator
    \/ LibSupernet \/ LibCoverRange
    \/ CmdSplit \/ CmdRange \/ CmdSupernet \/ Execute
SpecCli == InitCli /\ [][NextCli]_vars

\* the failure modes of the library
FailureModes ==
    {"ErrInvalidAddress", "ErrInvalidCIDR", "ErrInvalidPrefix", "ErrInvalidSplitPrefix",
     "ErrSplitExcessive", "empty list", "invalid range"}
LibCalls == {"Parse", "NewCIDR", "ParseCIDR", "Split", "SubnetIterator", "Supernet", "CoverRange"}

\* the number a sequence of decimal digits writes
RECURSIVE FromDigits(_)
FromDigits(t) ==
    IF t = <<>> THEN 0
    ELSE FromDigits(SubSeq(t, 1, Len(t) - 1)) * 10 + t[Len(t)]

\* the failure mode each call of the library must report for its input, ""
\* where it must not fail
ExpectedFailure ==
    IF pc = "Parse" THEN (IF a = NilAddr \/ To4NonNil(a) THEN "ErrInvalidAddress" ELSE "")
    ELSE IF pc = "NewCIDR" THEN (IF arg \in 0 .. BitLen THEN "" ELSE "ErrInvalidPrefix")
    ELSE IF pc = "ParseCIDR"
         THEN (IF num # 2 THEN "ErrInvalidCIDR"
               ELSE IF a = NilAddr \/ To4NonNil(a) THEN "ErrInvalidAddress"
               ELSE IF text = <<>> \/ (\E i \in 1 .. Len(text) : text[i] = NonDigit)
                       \/ FromDigits(text) > BitLen
                    THEN "ErrInvalidPrefix"
               ELSE "")
    ELSE IF pc \in {"Split", "SubnetIterator"}
         THEN (IF arg < net.plen \/ arg > BitLen THEN "ErrInvalidSplitPrefix"
               ELSE IF Pow2(arg - net.plen) > MaxSplitParts THEN "ErrSplitExcessive"
               ELSE "")
    ELSE IF pc = "Supernet" THEN (IF cidrs = <<>> THEN "empty list" ELSE "")
    ELSE IF pc = "CoverRange" THEN (IF start > end THEN "invalid range" ELSE "")
    ELSE ""

NoResult ==
    /\ pc \in {"Parse"} => sum = NilAddr
    /\ pc \in {"NewCIDR", "ParseCIDR", "Supernet"} => net = ZeroCIDR
    /\ pc \in {"Split", "CoverRange"} => res = <<>>
    /\ pc = "SubnetIterator" => it = NoIter

C27_RejectsNotLarger ==
    (pc = "split" /\ net # ZeroCIDR /\ arg <= net.plen) =>
        (err = "invalid --new-prefix" /\ res = <<>>)

\* ======================================================================
\* Memory: the same operations with their allocations and writes. heap is
\* the sequence of arrays and big.Ints allocated so far; an Address is the
\* reference of its ip slice (0 for the nil slice of Address{}), a CIDR is
\* [base, plen] with base such a reference, a slice of CIDRs is the
\* reference of an array of such records. A call returns the heap it leaves
\* and the reference of its result, PanicRef when it panicked.
\* ======================================================================
PanicRef == 0 - 1

AddrVal(h, r) == IF r = 0 THEN NilAddr ELSE h[r]
CIDRVal(h, c) == [base |-> AddrVal(h, c.base), plen |-> c.plen]

\* NewAddress returning the caller's slice itself as the Address
memNewAddress_Alias(h, ip) ==
    IF ip = 0 THEN [h |-> h, r |-> 0]
    ELSE IF NewAddressErr(h[ip]) THEN [h |-> h, r |-> 0]
    ELSE [h |-> h, r |-> ip]

\* NewAddress: To16 of a 16-byte slice is the slice; append(net.IP(nil), v...)
\* allocates the copy the Address keeps
memNewAddress(h, ip) ==
    IF ip = 0 THEN [h |-> h, r |-> 0]
    ELSE IF NewAddressErr(h[ip]) THEN [h |-> h, r |-> 0]
    ELSE [h |-> Append(h, h[ip]), r |-> Len(h) + 1]

\* the loop b[i] &= m[i] on the bytes holding v
MaskBytes(v, plen) ==
    FromBytes([i \in 1 .. ByteLen |->
                  BitAnd(ByteAt(v, i - 1), maskTable(plen, i - 1), ByteBits)], ByteLen)

\* Mask: b is a fresh copy of a.ip, masked in place, then copied by NewAddress
memMask(h, ar, plen) ==
    IF plen < 0 \/ plen > BitLen THEN [h |-> h, r |-> PanicRef]
    ELSE IF ar = 0 THEN [h |-> h, r |-> PanicRef]
    ELSE LET b == Len(h) + 1
             h1 == Append(h, h[ar])
             h2 == [h1 EXCEPT ![b] = MaskBytes(h1[b], plen)]
         IN  memNewAddress(h2, b)

\* NewCIDR: [h, c, err]
memNewCIDR(h, base, plen) ==
    IF plen < 0 \/ plen > BitLen THEN [h |-> h, c |-> NilCIDRRef, err |-> "ErrInvalidPrefix"]
    ELSE LET m == memMask(h, base, plen)
         IN  IF m.r = PanicRef THEN [h |-> m.h, c |-> NilCIDRRef, err |-> "panic"]
             ELSE [h |-> m.h, c |-> [base |-> m.r, plen |-> plen], err |-> ""]

\* HostCount: big.NewInt(1) and the new big.Int it is shifted into
memHostCount(h, plen) ==
    [h |-> Append(Append(h, 1), Pow2(BitLen - plen)), r |-> Len(h) + 2]

\* fromHiLo: b := make([]byte, 16), filled, then copied by NewAddress
memFromHiLo(h, hw, lw) ==
    LET b == Len(h) + 1
        h1 == Append(h, 0)
        h2 == [h1 EXCEPT ![b] = hw * WordMod + lw]
    IN  memNewAddress(h2, b)

\* Add for a delta >= 0 held at reference d
memAddAbs(h, ar, d) ==
    IF BigBitLen(h[d]) <= HalfBits
    THEN IF ar = 0 THEN [h |-> h, r |-> PanicRef]
         ELSE LET lo2 == (lo(h[ar]) + h[d]) % WordMod
                  carry == IF lo2 < lo(h[ar]) THEN 1 ELSE 0
              IN  memFromHiLo(h, (hi(h[ar]) + carry) % WordMod, lo2)
    ELSE LET h1 == Append(Append(h, 1), Mod)
             v == Len(h1) + 1
             h2 == Append(h1, AddrVal(h1, ar))
             h3 == [h2 EXCEPT ![v] = h2[v] + h2[d]]
             h4 == [h3 EXCEPT ![v] = h3[v] % Mod]
             b == Len(h4) + 1
             h5 == Append(h4, FillBytes(h4[v]))
         IN  memNewAddress(h5, b)

\* Sub for a delta >= 0 held at reference d
memSubAbs(h, ar, d) ==
    IF BigBitLen(h[d]) <= HalfBits
    THEN IF ar = 0 THEN [h |-> h, r |-> PanicRef]
         ELSE IF lo(h[ar]) >= h[d]
              THEN memFromHiLo(h, hi(h[ar]), lo(h[ar]) - h[d])
              ELSE memFromHiLo(h, (hi(h[ar]) - 1) % WordMod, (lo(h[ar]) - h[d]) % WordMod)
    ELSE LET h1 == Append(Append(h, 1), Mod)
             v == Len(h1) + 1
             h2 == Append(h1, AddrVal(h1, ar))
             h3 == [h2 EXCEPT ![v] = h2[v] - h2[d]]
             h4 == IF h3[v] < 0 THEN [h3 EXCEPT ![v] = h3[v] + Mod] ELSE h3
             b == Len(h4) + 1
         IN  IF FillBytesPanics(h4[v]) THEN [h |-> h4, r |-> PanicRef]
             ELSE memNewAddress(Append(h4, FillBytes(h4[v])), b)

\* Add, Sub: a negative delta goes to the other one as new(big.Int).Abs(delta)
memAdd(h, ar, d) ==
    IF h[d] < 0 THEN memSubAbs(Append(h, Abs(h[d])), ar, Len(h) + 1)
    ELSE memAddAbs(h, ar, d)

memSub(h, ar, d) ==
    IF h[d] < 0 THEN memAddAbs(Append(h, Abs(h[d])), ar, Len(h) + 1)
    ELSE memSubAbs(h, ar, d)

\* Next, Prev: [h, c, err]
memNext(h, c) ==
    LET inc == memHostCount(h, c.plen)
        addr == memAdd(inc.h, c.base, inc.r)
    IN  IF addr.r = PanicRef THEN [h |-> addr.h, c |-> NilCIDRRef, err |-> "panic"]
        ELSE memNewCIDR(addr.h, addr.r, c.plen)

memPrev(h, c) ==
    LET inc == memHostCount(h, c.plen)
        addr == memSub(inc.h, c.base, inc.r)
    IN  IF addr.r = PanicRef THEN [h |-> addr.h, c |-> NilCIDRRef, err |-> "panic"]
        ELSE memNewCIDR(addr.h, addr.r, c.plen)

\* the loop of Split: res is the array make allocated, step the big.Int
RECURSIVE memSplitLoop(_, _, _, _, _, _, _)
memSplitLoop(h, curr, i, parts, step, newPrefix, resr) ==
    IF i >= parts THEN [h |-> h, r |-> resr, err |-> ""]
    ELSE LET sub == memNewCIDR(h, curr, newPrefix)
         IN  IF sub.err = "panic" THEN [h |-> sub.h, r |-> 0, err |-> "panic"]
             ELSE LET h1 == [sub.h EXCEPT ![resr] = Append(@, sub.c)]
                      nx == memAdd(h1, curr, step)
                  IN  IF nx.r = PanicRef THEN [h |-> nx.h, r |-> 0, err |-> "panic"]
                      ELSE memSplitLoop(nx.h, nx.r, i + 1, parts, step, newPrefix, resr)

\* Split: [h, r, err], r the reference of the slice returned, 0 for nil
memSplit(h, c, newPrefix) ==
    LET e == SplitErr(CIDRVal(h, c), newPrefix)
    IN  IF e # "" THEN [h |-> h, r |-> 0, err |-> e]
        ELSE IF newPrefix = c.plen THEN [h |-> Append(h, <<c>>), r |-> Len(h) + 1, err |-> ""]
        ELSE LET countBits == newPrefix - c.plen
                 resr == Len(h) + 1
                 h1 == Append(h, <<>>)
                 hc == memHostCount(h1, c.plen)
                 step == Len(hc.h) + 1
                 h2 == Append(hc.h, hc.h[hc.r] \div Pow2(countBits))
             IN  memSplitLoop(h2, c.base, 0, Pow2(countBits), step, newPrefix, resr)

\* the loop norm[i].base = norm[i].base.Mask(norm[i].plen) from index i on
RECURSIVE memNormalize(_, _, _)
memNormalize(h, norm, i) ==
    IF i > Len(h[norm]) THEN [h |-> h, err |-> ""]
    ELSE LET m == memMask(h, h[norm][i].base, h[norm][i].plen)
         IN  IF m.r = PanicRef THEN [h |-> m.h, err |-> "panic"]
             ELSE memNormalize([m.h EXCEPT ![norm][i].base = m.r], norm, i + 1)

\* the elements of an array of CIDRs with the value of each base beside its
\* reference, as the comparator of sort.Slice reads them
WithVal(h, arr) == [i \in 1 .. Len(arr) |-> [base |-> AddrVal(h, arr[i].base), plen |-> arr[i].plen, ref |-> arr[i].base]]
RefsOf(arr) == [i \in 1 .. Len(arr) |-> [base |-> arr[i].ref, plen |-> arr[i].plen]]

\* the values of a slice, each in an array of its own
RECURSIVE memStore(_, _, _, _)
memStore(h, vals, i, arr) ==
    IF i > Len(vals) THEN [h |-> Append(h, arr), r |-> Len(h) + 1]
    ELSE memStore(Append(h, vals[i].base), vals, i + 1,
                  Append(arr, [base |-> Len(h) + 1, plen |-> vals[i].plen]))

\* Summarize: norm is a new array the caller's elements are copied into; the
\* bases are replaced in norm, norm is sorted, and the stack the loop builds
\* is a new array whose networks NewCIDR, Next and Mask allocated
memSummarize(h, cidrsr) ==
    IF Len(h[cidrsr]) = 0 THEN [h |-> h, r |-> 0, err |-> ""]
    ELSE LET norm == Len(h) + 1
             h1 == Append(h, h[cidrsr])
             n == memNormalize(h1, norm, 1)
         IN  IF n.err # "" THEN [h |-> n.h, r |-> 0, err |-> "panic"]
             ELSE LET h2 == [n.h EXCEPT ![norm] = RefsOf(SortSlice(WithVal(n.h, n.h[norm])))]
                      st == SummarizeLoop([i \in 1 .. Len(h2[norm]) |-> CIDRVal(h2, h2[norm][i])], 1, <<>>)
                  IN  IF st = PanicStack THEN [h |-> h2, r |-> 0, err |-> "panic"]
                      ELSE LET o == memStore(h2, st, 1, <<>>)
                           IN  [h |-> o.h, r |-> o.r, err |-> ""]

\* what the caller's buffers, deltas and lists hold
MemBufs == {0, 1, Pow2(HalfBits) - Pow2(ByteBits) - 1, Pow2(HalfBits) - Pow2(ByteBits),
            Pow2(HalfBits) - 1, Pow2(HalfBits), MaxAddr - 1, MaxAddr}
MemDeltas == {0 - (Mod + 1), 0 - (WordMod + 1), 0 - WordMod, 0 - 1, 0, 1,
              WordMod - 1, WordMod, WordMod + 1, MaxAddr, Mod + 1}
MaxMemList == 2
MemLists == UNION {ListsOver(SumPool, n) : n \in 1 .. MaxMemList}

InitMem ==
    /\ pc = "start"
    /\ err = ""
    /\ IdleCIDR /\ cidrs = <<>> /\ res = <<>>
    /\ IdleCover /\ IdleArith /\ IdleQuery
    /\ IdleMem /\ IdleGo

\* the caller fills a 16-byte buffer and calls NewAddress on it
MemNewAddress ==
    /\ pc = "start"
    /\ \E v \in MemBufs :
          LET r == memNewAddress(<<v>>, 1)
          IN  /\ heap' = r.h
              /\ refs' = [refs EXCEPT !.buf = 1, !.addr = r.r]
              /\ a' = v
              /\ err' = IF r.r = 0 THEN "ErrInvalidAddress" ELSE ""
    /\ pc' = "NewAddress"
    /\ UNCHANGED <<goVars, cidrVars, cidrs, res, coverVars, delta, sum, queryVars>>

\* the caller overwrites its buffer, at any time after NewAddress returned
MemWriteBuf ==
    /\ refs.buf # 0 /\ ~flag
    /\ \E w \in MemBufs \ {heap[refs.buf]} : heap' = [heap EXCEPT ![refs.buf] = w]
    /\ flag' = TRUE
    /\ UNCHANGED <<goVars, pc, err, refs, cidrVars, cidrs, res, coverVars, arithVars, other, bAddr, num, text>>

HoldsAddrRef == pc = "NewAddress" /\ refs.addr # 0

\* a call on the Address that returns an Address
MemAddrResult(name, r) ==
    /\ heap' = r.h
    /\ refs' = [refs EXCEPT !.out = IF r.r = PanicRef THEN 0 ELSE r.r]
    /\ err' = IF r.r = PanicRef THEN "panic" ELSE ""
    /\ sum' = IF r.r = PanicRef THEN PanicAddr ELSE AddrVal(r.h, r.r)
    /\ pc' = name

MemMask ==
    /\ HoldsAddrRef
    /\ \E p \in 0 .. BitLen : MemAddrResult("Mask", memMask(heap, refs.addr, p)) /\ arg' = p
    /\ UNCHANGED <<goVars, net, it, cidrs, res, coverVars, a, delta, queryVars>>

\* the caller makes a big.Int and calls Add or Sub with it
MemAdd ==
    /\ HoldsAddrRef
    /\ \E d \in MemDeltas :
          /\ MemAddrResult("Add", memAdd(Append(heap, d), refs.addr, Len(heap) + 1))
          /\ delta' = d
    /\ num' = Len(heap) + 1
    /\ UNCHANGED <<goVars, cidrVars, cidrs, res, coverVars, a, other, bAddr, flag, text>>

MemSub ==
    /\ HoldsAddrRef
    /\ \E d \in MemDeltas :
          /\ MemAddrResult("Sub", memSub(Append(heap, d), refs.addr, Len(heap) + 1))
          /\ delta' = d
    /\ num' = Len(heap) + 1
    /\ UNCHANGED <<goVars, cidrVars, cidrs, res, coverVars, a, other, bAddr, flag, text>>

\* NewCIDR on the Address: the network later calls have as their receiver
MemNewCIDR ==
    /\ HoldsAddrRef
    /\ \E p \in 0 .. BitLen :
          LET r == memNewCIDR(heap, refs.addr, p)
          IN  /\ heap' = r.h
              /\ refs' = [refs EXCEPT !.cidr = r.c]
              /\ net' = CIDRVal(r.h, r.c)
              /\ err' = r.err
    /\ pc' = "NewCIDR"
    /\ UNCHANGED <<goVars, arg, it, cidrs, res, coverVars, arithVars, queryVars>>

HoldsCIDRRef == pc = "NewCIDR" /\ err = ""

MemCIDRResult(name, r) ==
    /\ heap' = r.h
    /\ err' = r.err
    /\ other' = IF r.err = "" THEN CIDRVal(r.h, r.c) ELSE ZeroCIDR
    /\ pc' = name
    /\ UNCHANGED <<goVars, refs, cidrVars, cidrs, res, coverVars, arithVars, bAddr, num, flag, text>>

MemNext == HoldsCIDRRef /\ MemCIDRResult("Next", memNext(heap, refs.cidr))
MemPrev == HoldsCIDRRef /\ MemCIDRResult("Prev", memPrev(heap, refs.cidr))

MemSplit ==
    /\ HoldsCIDRRef
    /\ \E newPrefix \in (0 - 1) .. (BitLen + 1) :
          LET r == memSplit(heap, refs.cidr, newPrefix)
          IN  /\ heap' = r.h
              /\ refs' = [refs EXCEPT !.out = r.r]
              /\ err' = r.err
              /\ res' = IF r.r = 0 THEN <<>>
                        ELSE [i \in 1 .. Len(r.h[r.r]) |-> CIDRVal(r.h, r.h[r.r][i])]
              /\ arg' = newPrefix
    /\ pc' = "Split"
    /\ UNCHANGED <<goVars, net, it, cidrs, coverVars, arithVars, queryVars>>

\* the caller makes a slice of networks and calls Summarize on it
MemSummarize ==
    /\ pc = "start"
    /\ \E l \in MemLists :
          LET c == memStore(<<>>, l, 1, <<>>)
              r == memSummarize(c.h, c.r)
          IN  /\ heap' = r.h
              /\ refs' = [refs EXCEPT !.list = c.r, !.out = r.r]
              /\ cidrs' = l
              /\ err' = r.err
              /\ res' = IF r.r = 0 THEN <<>>
                        ELSE [i \in 1 .. Len(r.h[r.r]) |-> CIDRVal(r.h, r.h[r.r][i])]
    /\ pc' = "Summarize"
    /\ UNCHANGED <<goVars, cidrVars, coverVars, arithVars, queryVars>>

NextMem ==
    \/ MemNewAddress \/ MemWriteBuf \/ MemMask \/ MemAdd \/ MemSub
    \/ MemNewCIDR \/ MemNext \/ MemPrev \/ MemSplit \/ MemSummarize
SpecMem == InitMem /\ [][NextMem]_vars

\* C25: no operation mutates its inputs. The Address keeps the bytes the
\* buffer held when NewAddress was called, whatever is written to the buffer
\* later; after Add, Sub, Mask, Next, Prev and Split the receiver's bytes
\* and the caller's delta hold what they held before; after Summarize the
\* caller's slice holds the same networks in the same order.
C25_NoMutation ==
    /\ refs.addr # 0 => heap[refs.addr] = a
    /\ pc \in {"Add", "Sub"} => heap[num] = delta
    /\ refs.cidr # NilCIDRRef => CIDRVal(heap, refs.cidr) = net
    /\ refs.list # 0 =>
          /\ Len(heap[refs.list]) = Len(cidrs)
          /\ \A i \in 1 .. Len(cidrs) : CIDRVal(heap, heap[refs.list][i]) = cidrs[i]

C25_Witness ==
    /\ pc = "Sub" /\ flag
    /\ delta < 0
    /\ heap[refs.buf] # a
    /\ sum \in ValidAddrs /\ sum # a

\* the calls compute in memory what they compute on values
MemAgrees ==
    /\ pc = "Mask" => sum = Mask(a, arg)
    /\ pc = "Add" => sum = Add(a, delta)
    /\ pc = "Sub" => sum = Sub(a, delta)
    /\ pc = "NewCIDR" => net = NewCIDR(a, net.plen).c
    /\ pc = "Next" => (IF err = "panic" THEN Next(net) = PanicCIDR ELSE other = Next(net))
    /\ pc = "Prev" => (IF err = "panic" THEN Prev(net) = PanicCIDR ELSE other = Prev(net))
    /\ pc = "Split" => (res = Split(net, arg).res /\ err = Split(net, arg).err)
    /\ pc = "Summarize" => (res = Summarize(cidrs).res /\ err = Summarize(cidrs).err)

\* ======================================================================
\* Concurrent callers: goroutines that share one *SubnetIterator and call
\* Next on it without synchronization. The reads and writes of the fields
\* of the iterator are the steps that interleave.
\* ======================================================================
NumGoros == 2
MaxGoCalls == 2

IdleGoro == [pc |-> "idle", c |-> ZeroCIDR, nxt |-> NilAddr, rem |-> 0, calls |-> 0, out |-> <<>>, done |-> FALSE]

\* the networks whose iterators are shared
ConcNets == {c \in AllCIDRs : c.base \in {0, Pow2(HalfBits - 1), Pow2(HalfBits)} /\ c.plen >= HalfBits}

InitConc ==
    /\ pc = "go"
    /\ net \in ConcNets
    /\ arg \in net.plen .. BitLen
    /\ SubnetIterator(net, arg).err = ""
    /\ it = SubnetIterator(net, arg).it
    /\ err = ""
    /\ cidrs = <<>> /\ res = <<>>
    /\ IdleCover /\ IdleArith /\ IdleQuery /\ IdleMem
    /\ goros = [g \in 1 .. NumGoros |-> IdleGoro]

GoStep(g, r) ==
    /\ goros' = [goros EXCEPT ![g] = r]

\* a goroutine calls Next: if it.remaining == 0 { return CIDR{}, false }
GoCheck(g) ==
    /\ goros[g].pc = "idle" /\ ~goros[g].done /\ goros[g].calls < MaxGoCalls
    /\ IF it.remaining = 0
       THEN GoStep(g, [goros[g] EXCEPT !.done = TRUE, !.calls = @ + 1])
       ELSE GoStep(g, [goros[g] EXCEPT !.pc = "NewCIDR"])
    /\ UNCHANGED <<memVars, pc, err, cidrVars, cidrs, res, coverVars, arithVars, queryVars>>

\* c, _ := NewCIDR(it.current, it.plen)
GoNewCIDR(g) ==
    /\ goros[g].pc = "NewCIDR"
    /\ LET n == NewCIDR(it.current, it.plen)
       IN  IF n.err = "panic"
           THEN GoStep(g, [goros[g] EXCEPT !.pc = "panic"])
           ELSE GoStep(g, [goros[g] EXCEPT !.pc = "Add", !.c = n.c])
    /\ UNCHANGED <<memVars, pc, err, cidrVars, cidrs, res, coverVars, arithVars, queryVars>>

\* it.current.Add(it.step), the right-hand side of the assignment
GoAdd(g) ==
    /\ goros[g].pc = "Add"
    /\ GoStep(g, [goros[g] EXCEPT !.pc = "store", !.nxt = Add(it.current, it.step)])
    /\ UNCHANGED <<memVars, pc, err, cidrVars, cidrs, res, coverVars, arithVars, queryVars>>

\* it.current = ...
GoStore(g) ==
    /\ goros[g].pc = "store"
    /\ it' = [it EXCEPT !.current = goros[g].nxt]
    /\ GoStep(g, [goros[g] EXCEPT !.pc = "load"])
    /\ UNCHANGED <<memVars, pc, err, net, arg, cidrs, res, coverVars, arithVars, queryVars>>

\* it.remaining--, the read
GoLoad(g) ==
    /\ goros[g].pc = "load"
    /\ GoStep(g, [goros[g] EXCEPT !.pc = "dec", !.rem = it.remaining])
    /\ UNCHANGED <<memVars, pc, err, cidrVars, cidrs, res, coverVars, arithVars, queryVars>>

\* it.remaining--, the write; return c, true
GoDec(g) ==
    /\ goros[g].pc = "dec"
    /\ it' = [it EXCEPT !.remaining = goros[g].rem - 1]
    /\ GoStep(g, [goros[g] EXCEPT !.pc = "idle", !.calls = @ + 1, !.out = Append(@, goros[g].c)])
    /\ UNCHANGED <<memVars, pc, err, net, arg, cidrs, res, coverVars, arithVars, queryVars>>

NextConc ==
    \E g \in 1 .. NumGoros :
        \/ GoCheck(g) \/ GoNewCIDR(g) \/ GoAdd(g) \/ GoStore(g) \/ GoLoad(g) \/ GoDec(g)
SpecConc == InitConc /\ [][NextConc]_vars

\* the subnets the goroutines were given so far, one after the other
RECURSIVE Yielded(_)
Yielded(g) == IF g = 0 THEN <<>> ELSE Yielded(g - 1) \o goros[g].out

Quiescent == \A g \in 1 .. NumGoros : goros[g].pc = "idle"

\* C26: in every interleaving of unsynchronized Next calls on one shared
\* SubnetIterator each call returns what it would return in some sequential
\* order of the calls: no subnet is returned twice, and between calls the
\* subnets returned so far are the first ones of the split, none skipped.
C26_SharedIterator ==
    LET y == Yielded(NumGoros)
        seq == Split(net, arg)
    IN  pc = "go" /\ seq.err = "" =>
          /\ \A i, j \in 1 .. Len(y) : i # j => y[i] # y[j]
          /\ Quiescent =>
                /\ Len(y) <= Len(seq.res)
                /\ {y[i] : i \in 1 .. Len(y)} = {seq.res[i] : i \in 1 .. Len(y)}
                /\ it.remaining = Len(seq.res) - Len(y)

====
